---- MODULE Spec2Model ----
(***************************************************************************)
(* StoryBoarder: the wizard controller of App (React state, handlers and   *)
(* the asynchronous continuations of handleGenerate, handleRegenerateSingle*)
(* and handleAnalyzeStory) and the fallback split of breakdownStory.       *)
(*                                                                         *)
(* Scene objects live in a heap because the handlers share them by         *)
(* reference: setScenes([...updatedScenes]) copies the array, not the      *)
(* objects, and the setScenes(prev => ...) updaters mutate prev[index] in  *)
(* place.                                                                  *)
(***************************************************************************)
EXTENDS Integers, Sequences, FiniteSets, TLC

\* ---- bounds of the model -------------------------------------------------
MaxScenes == 2      \* longest scene list the user or breakdownStory builds
MaxRuns == 1        \* handleGenerate invocations pending at the same time
MaxRegens == 1      \* handleRegenerateSingle invocations pending at the same time
MaxAnalyze == 1     \* breakdownStory calls pending at the same time
MaxEvents == 3      \* clicks and keystrokes handled while a call has not returned
MaxChunks == 5      \* chunks typed into the narrative of the fallback split
MaxSentences == 7   \* sentences typed into the narrative given to breakdownStory
MaxItems == 2       \* items of the array the model answers breakdownStory with
MaxImageTokens == 4 \* tokens of the base64Image given to analyzeCharacterFromImage
MaxStatuses == 30   \* checks for which the vendor's task can stay RUNNING
MaxHtml == 4        \* tokens of the index.html the middleware rewrites
MaxCut == 6         \* caption lengths, counted down from the truncation limit
MaxDescTokens == 2  \* tokens of the character description in a prompt
MaxSceneTokens == 2 \* tokens of the scene description in a prompt
MaxPanels == 3      \* panels a prompt is composed for
MaxRenders == 9     \* renders of App followed for the view on screen
MaxActivations == 3 \* activations of each callback of a UserMenu
MaxTicks == 2       \* milliseconds the clock read by Date.now() advances

\* ---- program constants ---------------------------------------------------
MinSentenceLen == 5     \* filter(s => s.trim().length > 5)
MaxFallbackScenes == 6  \* sentences.slice(0, 6)

VARIABLES
    session,          \* useState<Session | null>: TRUE when a session exists
    checkingSession,  \* useState(true)
    step,             \* useState<AppStep>('hero')
    returnTo,         \* useState<AppStep | null>(null), "null" for null
    character,        \* useState<CharacterData>: description, imageBase64
    rawStory,         \* useState('')
    scenes,           \* useState<Scene[]>: sequence of heap addresses
    selectedStyle,    \* useState<string>('')
    isGenerating,     \* useState(false)
    isAnalyzing,      \* useState(false)
    errorMsg,         \* useState('')
    heap,             \* the Scene objects, by address
    runs,             \* pending handleGenerate invocations, by slot
    regens,           \* pending handleRegenerateSingle invocations, by slot
    latest,           \* slot of the most recently invoked handleGenerate, 0 if it ended
    analyzePending,   \* breakdownStory calls that have not returned
    uploadPending,    \* FileReader reads that have not ended
    signOutPending,   \* handleSignOut awaiting supabase.auth.signOut()
    crashed,          \* an updater threw while rendering: the tree is unmounted
    lastAct,          \* the handler or continuation that made the last step
    events,           \* clicks and keystrokes handled since a call has been pending
    storyText,        \* breakdownStory's argument, as the chunks typed so far
    fallbackOut,      \* the descriptions the fallback split returned
    fallbackRan,      \* TRUE once the fallback split has run on storyText
    bd,               \* one call of breakdownStory by handleAnalyzeStory
    svc,              \* one call of analyzeCharacterFromImage or generateImageFromPrompt
    mw,               \* one request handled by the social preview middleware
    pr,               \* one prompt composed for a panel
    au,               \* the session, the step and the view on screen, render by render
    um,               \* one UserMenu: isOpen, the last event, the callbacks invoked
    sl                \* the ids of a scene list, as breakdownStory and Add Scene make them

appVars == <<session, checkingSession, step, returnTo, character, rawStory, scenes,
             selectedStyle, isGenerating, isAnalyzing, errorMsg, heap, runs, regens,
             latest, analyzePending, uploadPending, signOutPending, crashed, lastAct,
             events>>
splitVars == <<storyText, fallbackOut, fallbackRan>>
vars == <<appVars, splitVars, bd, svc, mw, pr, au, um, sl>>

\* ---- values --------------------------------------------------------------
Undefined == "undefined"
Image == "data:image/png"
NoError == "null"
GenFailed == "Generation failed. Please try again."
RegenFailed == "Failed to regenerate"
AnalyzeFailed == "Failed to analyze story. Please try again."

Steps == {"hero", "auth", "character", "story", "style", "result", "gallery"}
FramelessStyles == {"doodle"}
FramedStyles == {"comic"}
StyleIds == FramelessStyles \cup FramedStyles
Texts == {"", "txt"}            \* a character description
BlankTexts == {"", " ", "txt"}  \* a narrative or a scene description: empty, blank or not

\* String.prototype.trim on the texts of the model
Trim(s) == IF s = " " THEN "" ELSE s

Scene(id, d) ==
    [id |-> id, description |-> d, imageUrl |-> Undefined,
     isGenerating |-> FALSE, error |-> NoError]

Range(s) == {s[k] : k \in 1..Len(s)}

\* ---- asynchronous invocations ---------------------------------------------
RunSlots == 1..MaxRuns
RegenSlots == 1..MaxRegens

\* character: the character state the handler's closure holds
IdleRun ==
    [pc |-> "idle", i |-> 0, updatedScenes |-> <<>>, log |-> <<>>,
     interrupted |-> FALSE,
     character |-> [description |-> "", imageBase64 |-> FALSE]]
\* before: the imageUrl of the scene when the regeneration was requested
IdleRegen ==
    [pc |-> "idle", index |-> 0, sceneToRegen |-> 0, id |-> 0, before |-> Undefined]

ActiveRuns == {r \in RunSlots : runs[r].pc # "idle"}
ActiveRegens == {g \in RegenSlots : regens[g].pc # "idle"}

\* every step of another handler interrupts the runs in progress
MarkOthers(rs, actor) ==
    [r \in RunSlots |->
        IF r = actor \/ rs[r].pc = "idle" THEN rs[r]
        ELSE [rs[r] EXCEPT !.interrupted = TRUE]]

\* ---- the heap, kept in a canonical order ----------------------------------
RECURSIVE Dedup(_)
Dedup(s) ==
    IF s = <<>> THEN <<>>
    ELSE LET r == Dedup(SubSeq(s, 1, Len(s) - 1))
             x == s[Len(s)]
         IN IF x \in Range(r) THEN r ELSE Append(r, x)

IndexOf(x, s) == CHOOSE k \in 1..Len(s) : s[k] = x

RECURSIVE RunRefs(_, _)
RunRefs(rs, r) ==
    IF r > MaxRuns THEN <<>> ELSE rs[r].updatedScenes \o RunRefs(rs, r + 1)

RECURSIVE RegenRefs(_, _)
RegenRefs(gs, g) ==
    IF g > MaxRegens THEN <<>>
    ELSE (IF gs[g].pc # "analysis" THEN <<>> ELSE <<gs[g].sceneToRegen>>)
         \o RegenRefs(gs, g + 1)

\* The objects still reachable from the state array, a run's updatedScenes or
\* a regeneration's sceneToRegen, renumbered in that order; the rest is garbage.
\* Scene ids are opaque strings only compared for equality: they are renumbered
\* in the same order.
Commit(h, sc, rs, gs) ==
    LET order == Dedup(sc \o RunRefs(rs, 1) \o RegenRefs(gs, 1))
        ren(a) == IndexOf(a, order)
        ids == Dedup([k \in 1..Len(order) |-> h[order[k]].id]
                     \o [g \in RegenSlots |-> gs[g].id])
    IN /\ heap' = [k \in 1..Len(order) |->
                     [h[order[k]] EXCEPT !.id = IndexOf(@, ids)]]
       /\ scenes' = [k \in 1..Len(sc) |-> ren(sc[k])]
       /\ runs' = [r \in RunSlots |->
                     [rs[r] EXCEPT !.updatedScenes =
                         [k \in 1..Len(rs[r].updatedScenes) |->
                             ren(rs[r].updatedScenes[k])]]]
       /\ regens' = [g \in RegenSlots |->
                     CASE gs[g].pc = "analysis" ->
                            [gs[g] EXCEPT !.sceneToRegen = ren(@)]
                       [] gs[g].pc = "calling" ->
                            [gs[g] EXCEPT !.id = IndexOf(@, ids)]
                       [] OTHER -> gs[g]]

\* a step that touches no scene and no invocation
Quiet ==
    /\ heap' = heap /\ scenes' = scenes /\ regens' = regens
    /\ runs' = MarkOthers(runs, 0)

\* Date.now().toString(): an id no live scene carries
RECURSIVE FreshIds(_, _)
FreshIds(used, n) ==
    IF n = 0 THEN <<>>
    ELSE LET id == CHOOSE x \in 1..(Cardinality(used) + 1) : x \notin used
         IN <<id>> \o FreshIds(used \cup {id}, n - 1)

UsedIds(h) == {h[k].id : k \in 1..Len(h)} \cup {regens[g].id : g \in RegenSlots}

\* ---- rendering ------------------------------------------------------------
\* (mutant) the protected routes are rendered without looking at the session
Rendered_unprotected(checking, st, se) ==
    IF checking THEN "loading"
    ELSE CASE st = "hero" -> "hero"
           [] st = "auth" -> "auth"
           [] st = "gallery" -> "gallery"
           [] st \in {"character", "story", "style", "result"} -> st
           [] OTHER -> "hero"

\* what App renders for checkingSession, step and session: the loader, or
\* renderContent()
Rendered(checking, st, se) ==
    IF checking THEN "loading"
    ELSE CASE st = "hero" -> "hero"
           [] st = "auth" -> "auth"
           [] st = "gallery" -> IF ~se THEN "auth" ELSE "gallery"
           [] st \in {"character", "story", "style", "result"} ->
                 IF ~se THEN "auth" ELSE st
           [] OTHER -> "hero"

\* the view on screen
View == Rendered(checkingSession, step, session)

\* some asynchronous call has not returned
PendingIn(rs, gs, ap, up, sp) ==
    \/ \E r \in RunSlots : rs[r].pc # "idle"
    \/ \E g \in RegenSlots : gs[g].pc # "idle"
    \/ ap > 0 \/ up \/ sp

Pending == PendingIn(runs, regens, analyzePending, uploadPending, signOutPending)

\* the page takes events: mounted, and past the session check
Interactive == ~crashed /\ ~checkingSession

\* what the last step was: kind, the slot or index it acted on, and for the end
\* of a handleGenerate run its call log and whether nothing else ran meanwhile
Act(kind, n) ==
    IF kind = "reset"
    THEN [kind |-> kind, n |-> n, log |-> <<>>, clean |-> FALSE]
    ELSE [kind |-> "other", n |-> 0, log |-> <<>>, clean |-> FALSE]

\* ---- Init: the state after App is constructed -----------------------------
Init ==
    /\ session = FALSE /\ checkingSession = TRUE
    /\ step = "hero" /\ returnTo = "null"
    /\ character = [description |-> "", imageBase64 |-> FALSE]
    /\ rawStory = "" /\ scenes = <<>> /\ selectedStyle = ""
    /\ isGenerating = FALSE /\ isAnalyzing = FALSE /\ errorMsg = ""
    /\ heap = <<>>
    /\ runs = [r \in RunSlots |-> IdleRun]
    /\ regens = [g \in RegenSlots |-> IdleRegen]
    /\ latest = 0
    /\ analyzePending = 0 /\ uploadPending = FALSE /\ signOutPending = FALSE
    /\ crashed = FALSE
    /\ lastAct = Act("init", 0)
    /\ events = 0
    /\ storyText = <<>> /\ fallbackOut = <<>> /\ fallbackRan = FALSE
    /\ bd = [pc |-> "idle",
             outcome |-> [kind |-> "none", text |-> <<>>, items |-> <<>>,
                          wrap |-> "none", fenced |-> FALSE],
             path |-> "none", out |-> <<>>, threw |-> FALSE, stored |-> <<>>,
             errorMsg |-> ""]
    /\ svc = [pc |-> "idle", fn |-> "none", apiKey |-> FALSE, image |-> <<>>,
              vendor |-> "none", statuses |-> <<>>,
              result |-> [kind |-> "none", value |-> ""], checks |-> 0]
    /\ mw = [pc |-> "idle", id |-> <<>>, db |-> "none", index |-> "none", html |-> <<>>,
             caption |-> [kind |-> "null", chars |-> <<>>], imageUrl |-> "",
             out |-> [kind |-> "none", html |-> <<>>, safeTitle |-> <<>>,
                      description |-> <<>>]]
    /\ pr = [pc |-> "idle", style |-> "", refImage |-> FALSE, description |-> <<>>,
             visualAnalysis |-> <<>>, scene |-> <<>>, index |-> 0, prompt |-> <<>>,
             image |-> Undefined, regenPrompt |-> <<>>, regenImage |-> Undefined]
    /\ au = [checkingSession |-> TRUE, session |-> FALSE, step |-> "hero",
             returnTo |-> "null", pc |-> "idle", view |-> "loading", renders |-> 0]
    /\ um = [isOpen |-> FALSE, last |-> "mount", gallery |-> 0, logout |-> 0]
    /\ sl = [ticks |-> 0, ids |-> <<>>, op |-> "none", clicked |-> 0, removed |-> 0,
             hit |-> 0]

\* An error thrown while rendering, with no error boundary: React unmounts the
\* tree, the state of App is gone and later setState calls do nothing.
Unmount ==
    /\ crashed' = TRUE
    /\ session' = FALSE /\ checkingSession' = FALSE
    /\ step' = "hero" /\ returnTo' = "null"
    /\ character' = [description |-> "", imageBase64 |-> FALSE]
    /\ rawStory' = "" /\ scenes' = <<>> /\ selectedStyle' = ""
    /\ isGenerating' = FALSE /\ isAnalyzing' = FALSE /\ errorMsg' = ""
    /\ heap' = <<>>
    /\ runs' = [r \in RunSlots |-> IdleRun]
    /\ regens' = [g \in RegenSlots |-> IdleRegen]
    /\ latest' = 0
    /\ analyzePending' = 0 /\ uploadPending' = FALSE /\ signOutPending' = FALSE
    /\ lastAct' = Act("crash", 0)

\* ---- session ---------------------------------------------------------------
\* supabase.auth.getSession().then(...)
GetSessionResolved ==
    /\ checkingSession /\ ~crashed
    /\ \E s \in BOOLEAN : session' = s
    /\ checkingSession' = FALSE
    /\ Quiet /\ lastAct' = Act("getSession", 0)
    /\ UNCHANGED <<step, returnTo, character, rawStory, selectedStyle, isGenerating,
                   isAnalyzing, errorMsg, latest, analyzePending, uploadPending,
                   signOutPending, crashed>>

\* the Post-Login Redirect Effect has still to run for the state on screen
EffectPending == session /\ step = "auth"

\* a click or keystroke is handled: effects of the last render are flushed first
Clickable == Interactive /\ ~EffectPending /\ (Pending => events < MaxEvents)

\* (mutant) the effect ignores returnTo
RedirectTarget_hero(rt) == "hero"

\* useEffect(() => { if (session && step === 'auth') ... }, [session, step, returnTo])
RedirectTarget(rt) == IF rt # "null" THEN rt ELSE "hero"

PostLoginRedirect ==
    /\ ~crashed /\ EffectPending
    /\ step' = RedirectTarget(returnTo)
    /\ returnTo' = "null"
    /\ Quiet /\ lastAct' = Act("redirect", 0)
    /\ UNCHANGED <<session, checkingSession, character, rawStory, selectedStyle,
                   isGenerating, isAnalyzing, errorMsg, latest, analyzePending,
                   uploadPending, signOutPending, crashed>>

\* onAuthStateChange, _event === 'SIGNED_IN': the Auth view signed the user in
AuthSignedIn ==
    /\ Interactive /\ ~session /\ View = "auth"
    /\ session' = TRUE
    /\ Quiet /\ lastAct' = Act("signedIn", 0)
    /\ UNCHANGED <<checkingSession, step, returnTo, character, rawStory, selectedStyle,
                   isGenerating, isAnalyzing, errorMsg, latest, analyzePending,
                   uploadPending, signOutPending, crashed>>

\* (mutant) resetState forgets the two progress flags
resetState_keepsFlags ==
    [character |-> [description |-> "", imageBase64 |-> FALSE],
     rawStory |-> "", scenes |-> <<>>, selectedStyle |-> "",
     isGenerating |-> isGenerating, isAnalyzing |-> isAnalyzing, errorMsg |-> ""]

\* resetState: the values it sets
resetState ==
    [character |-> [description |-> "", imageBase64 |-> FALSE],
     rawStory |-> "", scenes |-> <<>>, selectedStyle |-> "",
     isGenerating |-> FALSE, isAnalyzing |-> FALSE, errorMsg |-> ""]

\* a handler that calls resetState() and setStep(to)
ResetTo(to, kind) ==
    LET v == resetState
    IN /\ character' = v.character /\ rawStory' = v.rawStory
       /\ selectedStyle' = v.selectedStyle /\ isGenerating' = v.isGenerating
       /\ isAnalyzing' = v.isAnalyzing /\ errorMsg' = v.errorMsg
       /\ Commit(heap, v.scenes, MarkOthers(runs, 0), regens)
       /\ step' = to
       /\ lastAct' = Act("reset", 0)
       /\ UNCHANGED <<checkingSession, latest, analyzePending, uploadPending, crashed>>

\* onAuthStateChange, _event === 'SIGNED_OUT', for a session that ended
\* without handleSignOut
AuthSignedOut ==
    /\ ~crashed /\ ~checkingSession /\ session /\ ~signOutPending
    /\ session' = FALSE
    /\ ResetTo("hero", 1)
    /\ UNCHANGED <<returnTo, signOutPending>>

\* handleSignOut up to its await
HandleSignOut ==
    /\ Clickable /\ session /\ ~signOutPending
    /\ signOutPending' = TRUE
    /\ Quiet /\ lastAct' = Act("signOut", 0)
    /\ UNCHANGED <<session, checkingSession, step, returnTo, character, rawStory,
                   selectedStyle, isGenerating, isAnalyzing, errorMsg, latest,
                   analyzePending, uploadPending, crashed>>

\* supabase.auth.signOut() settles: when it signed out, the SIGNED_OUT handler
\* runs (setSession(null), setStep('hero'), resetState()) and, in the same turn
\* of the event loop, handleSignOut resumes with resetState(), setStep('hero');
\* when it failed, only handleSignOut resumes.
HandleSignOutResume ==
    /\ ~crashed /\ signOutPending
    /\ signOutPending' = FALSE
    /\ \E signedOut \in BOOLEAN : session' = (session /\ ~signedOut)
    /\ ResetTo("hero", 2)
    /\ UNCHANGED returnTo

\* handleStart
HandleStart ==
    /\ Clickable /\ View = "hero"
    /\ IF session
       THEN ResetTo("character", 3) /\ UNCHANGED returnTo
       ELSE ResetTo("auth", 3) /\ returnTo' = "character"
    /\ UNCHANGED <<session, signOutPending>>

\* handleLogoClick
HandleLogoClick ==
    /\ Clickable
    /\ ResetTo("hero", 4)
    /\ UNCHANGED <<session, returnTo, signOutPending>>

\* navigateToAuth: the header's Sign In
NavigateToAuth ==
    /\ Clickable /\ ~session
    /\ returnTo' = "null" /\ step' = "auth"
    /\ Quiet /\ lastAct' = Act("navigateToAuth", 0)
    /\ UNCHANGED <<session, checkingSession, character, rawStory, selectedStyle,
                   isGenerating, isAnalyzing, errorMsg, latest, analyzePending,
                   uploadPending, signOutPending, crashed>>

\* a button that only calls setStep(to)
GoTo(from, to) ==
    /\ Clickable /\ View = from
    /\ step' = to
    /\ Quiet /\ lastAct' = Act("setStep", 0)
    /\ UNCHANGED <<session, checkingSession, returnTo, character, rawStory,
                   selectedStyle, isGenerating, isAnalyzing, errorMsg, latest,
                   analyzePending, uploadPending, signOutPending, crashed>>

\* UserMenu's My Gallery: onOpenGallery={() => setStep('gallery')}
OpenGallery ==
    /\ Clickable /\ session
    /\ step' = "gallery"
    /\ Quiet /\ lastAct' = Act("setStep", 0)
    /\ UNCHANGED <<session, checkingSession, returnTo, character, rawStory,
                   selectedStyle, isGenerating, isAnalyzing, errorMsg, latest,
                   analyzePending, uploadPending, signOutPending, crashed>>

GalleryBack == GoTo("gallery", "hero")

\* Gallery's onCreate
GalleryCreate ==
    /\ Clickable /\ View = "gallery"
    /\ ResetTo("character", 5)
    /\ UNCHANGED <<session, returnTo, signOutPending>>

\* ---- character view --------------------------------------------------------
AppFrame ==
    UNCHANGED <<session, checkingSession, returnTo, latest, signOutPending, crashed>>

\* <textarea onChange={(e) => setCharacter(prev => ({ ...prev, description }))}>
SetCharacterDescription ==
    /\ Clickable /\ View = "character"
    /\ \E t \in Texts :
          /\ t # character.description
          /\ character' = [character EXCEPT !.description = t]
    /\ Quiet /\ lastAct' = Act("edit", 0) /\ AppFrame
    /\ UNCHANGED <<step, rawStory, selectedStyle, isGenerating, isAnalyzing, errorMsg,
                   analyzePending, uploadPending>>

\* handleCharacterUpload up to reader.readAsDataURL(file)
HandleCharacterUpload ==
    /\ Clickable /\ View = "character" /\ ~uploadPending
    /\ uploadPending' = TRUE
    /\ Quiet /\ lastAct' = Act("upload", 0) /\ AppFrame
    /\ UNCHANGED <<step, character, rawStory, selectedStyle, isGenerating, isAnalyzing,
                   errorMsg, analyzePending>>

\* reader.onloadend
UploadLoadEnd ==
    /\ ~crashed /\ uploadPending
    /\ uploadPending' = FALSE
    /\ character' = [character EXCEPT !.imageBase64 = TRUE]
    /\ Quiet /\ lastAct' = Act("loadend", 0) /\ AppFrame
    /\ UNCHANGED <<step, rawStory, selectedStyle, isGenerating, isAnalyzing, errorMsg,
                   analyzePending>>

\* removeCharacterImage
RemoveCharacterImage ==
    /\ Clickable /\ View = "character" /\ character.imageBase64
    /\ character' = [character EXCEPT !.imageBase64 = FALSE]
    /\ Quiet /\ lastAct' = Act("edit", 0) /\ AppFrame
    /\ UNCHANGED <<step, rawStory, selectedStyle, isGenerating, isAnalyzing, errorMsg,
                   analyzePending, uploadPending>>

CharacterBack == GoTo("character", "hero")
\* (mutant) Next on the character view skips the story
CharacterNext_toStyle == GoTo("character", "style")

CharacterNext == GoTo("character", "story")

\* ---- story view ------------------------------------------------------------
StoryFrame ==
    /\ AppFrame
    /\ UNCHANGED <<character, selectedStyle, isGenerating, uploadPending>>

\* <textarea value={rawStory} onChange={(e) => setRawStory(e.target.value)}>
SetRawStory ==
    /\ Clickable /\ View = "story" /\ Len(scenes) = 0
    /\ \E t \in BlankTexts : t # rawStory /\ rawStory' = t
    /\ Quiet /\ lastAct' = Act("edit", 0) /\ StoryFrame
    /\ UNCHANGED <<step, isAnalyzing, errorMsg, analyzePending>>

\* Add Scene: setScenes([...scenes, { id: Date.now().toString(), description: '' }])
AddScene ==
    /\ Clickable /\ View = "story" /\ Len(scenes) < MaxScenes
    /\ LET id == FreshIds(UsedIds(heap), 1)[1]
       IN Commit(Append(heap, Scene(id, "")), Append(scenes, Len(heap) + 1),
                 MarkOthers(runs, 0), regens)
    /\ lastAct' = Act("addScene", 0) /\ StoryFrame
    /\ UNCHANGED <<step, rawStory, isAnalyzing, errorMsg, analyzePending>>

\* setScenes(scenes.filter(s => s.id !== scene.id))
FilterOut(h, sc, id) == SelectSeq(sc, LAMBDA a : h[a].id # id)

DeleteScene ==
    /\ Clickable /\ View = "story"
    /\ \E k \in 1..Len(scenes) :
          Commit(heap, FilterOut(heap, scenes, heap[scenes[k]].id),
                 MarkOthers(runs, 0), regens)
    /\ lastAct' = Act("deleteScene", 0) /\ StoryFrame
    /\ UNCHANGED <<step, rawStory, isAnalyzing, errorMsg, analyzePending>>

\* newScenes.findIndex(s => s.id === id), as a position of the sequence
FindIndex(h, sc, id) ==
    IF \E k \in 1..Len(sc) : h[sc[k]].id = id
    THEN CHOOSE k \in 1..Len(sc) :
            h[sc[k]].id = id /\ \A j \in 1..(k - 1) : h[sc[j]].id # id
    ELSE 0

\* the scene card's textarea: newScenes[index].description = e.target.value
EditDescription ==
    /\ Clickable /\ View = "story"
    /\ \E k \in 1..Len(scenes), t \in BlankTexts :
          LET a == scenes[FindIndex(heap, scenes, heap[scenes[k]].id)]
          IN /\ t # heap[a].description
             /\ Commit([heap EXCEPT ![a].description = t], scenes,
                       MarkOthers(runs, 0), regens)
    /\ lastAct' = Act("edit", 0) /\ StoryFrame
    /\ UNCHANGED <<step, rawStory, isAnalyzing, errorMsg, analyzePending>>

\* Clear & Restart / Back
StoryClearOrBack ==
    /\ Clickable /\ View = "story"
    /\ IF Len(scenes) > 0
       THEN /\ Commit(heap, <<>>, MarkOthers(runs, 0), regens)
            /\ UNCHANGED step
       ELSE /\ step' = "character"
            /\ Quiet
    /\ lastAct' = Act("clearOrBack", 0) /\ StoryFrame
    /\ UNCHANGED <<rawStory, isAnalyzing, errorMsg, analyzePending>>

\* Select Style: disabled={scenes.length === 0 || scenes.some(s => !s.description.trim())}
SelectStyleEnabled ==
    /\ Len(scenes) # 0
    /\ \A k \in 1..Len(scenes) : Trim(heap[scenes[k]].description) # ""

StoryNext == SelectStyleEnabled /\ GoTo("story", "style")

\* handleAnalyzeStory up to its await
HandleAnalyzeStory ==
    /\ Clickable /\ View = "story" /\ Len(scenes) = 0
    /\ Trim(rawStory) # "" /\ ~isAnalyzing
    /\ analyzePending < MaxAnalyze
    /\ isAnalyzing' = TRUE /\ errorMsg' = ""
    /\ analyzePending' = analyzePending + 1
    /\ Quiet /\ lastAct' = Act("analyze", 0) /\ StoryFrame
    /\ UNCHANGED <<step, rawStory>>

\* breakdownStory returned n scenes (parsed, or the fallback split; it never
\* rejects): setScenes(newScenes), finally setIsAnalyzing(false)
AnalyzeReturn ==
    /\ ~crashed /\ analyzePending > 0
    /\ \E n \in 0..MaxScenes :
          LET ids == FreshIds(UsedIds(heap), n)
              new == [k \in 1..n |-> Scene(ids[k], "txt")]
          IN Commit(heap \o new, [k \in 1..n |-> Len(heap) + k],
                    MarkOthers(runs, 0), regens)
    /\ isAnalyzing' = FALSE
    /\ analyzePending' = analyzePending - 1
    /\ lastAct' = Act("analyzeReturn", 0) /\ StoryFrame
    /\ UNCHANGED <<step, rawStory, errorMsg>>

\* ---- style view ------------------------------------------------------------
\* <Card onClick={() => setSelectedStyle(style.id)}>
SetSelectedStyle ==
    /\ Clickable /\ View = "style"
    /\ \E s \in StyleIds : s # selectedStyle /\ selectedStyle' = s
    /\ Quiet /\ lastAct' = Act("edit", 0) /\ AppFrame
    /\ UNCHANGED <<step, character, rawStory, isGenerating, isAnalyzing, errorMsg,
                   analyzePending, uploadPending>>

StyleBack == GoTo("style", "story")

\* ---- handleGenerate ---------------------------------------------------------
GenFrame ==
    UNCHANGED <<session, checkingSession, returnTo, character, rawStory, selectedStyle,
                isAnalyzing, errorMsg, analyzePending, uploadPending, signOutPending>>

\* scenes.map(s => ({ ...s, imageUrl: undefined, isGenerating: true, error: null }))
ResetScene(s) ==
    [s EXCEPT !.imageUrl = Undefined, !.isGenerating = TRUE, !.error = NoError]

\* the for loop's i++
NextIndex(i) == i + 1

\* (mutant) the finally block is missing: isGenerating stays set
RecordOutcome_noFinally(s, ok) ==
    IF ok THEN [s EXCEPT !.imageUrl = Image]
    ELSE [s EXCEPT !.imageUrl = Undefined, !.error = GenFailed]

\* the loop body's try / catch / finally on scene object s
RecordOutcome(s, ok) ==
    IF ok THEN [s EXCEPT !.imageUrl = Image, !.isGenerating = FALSE]
    ELSE [s EXCEPT !.imageUrl = Undefined, !.error = GenFailed, !.isGenerating = FALSE]

\* (mutant) a failed call ends the loop
ContinuesAfter_abort(ok) == ok

\* the catch of the loop body is followed by the next iteration
ContinuesAfter(ok) == TRUE

\* which of the four character contexts the handler builds from its character
ContextVariant(c) ==
    IF c.imageBase64 /\ Trim(c.description) # "" THEN "hybrid"
    ELSE IF c.imageBase64 THEN "reference"
    ELSE IF Trim(c.description) # "" THEN "profile"
    ELSE "generic"

\* (mutant) every iteration reads the character state anew
EnterIteration_rereads(h, run) ==
    IF run.i < Len(run.updatedScenes)
    THEN [h |-> [h EXCEPT ![run.updatedScenes[run.i + 1]].isGenerating = TRUE],
          run |-> [run EXCEPT !.pc = "calling",
                              !.log = Append(@, [idx |-> run.i, res |-> "pending",
                                                 ref |-> character.imageBase64,
                                                 ctx |-> ContextVariant(character)])],
          done |-> FALSE]
    ELSE [h |-> h, run |-> run, done |-> TRUE]

\* The head of the for loop at index run.i: either the iteration starts
\* (updatedScenes[i].isGenerating = true, generateImageFromPrompt is called with
\* refImage and a prompt holding characterContext, both constants of the
\* invocation) or the loop is over.
EnterIteration(h, run) ==
    IF run.i < Len(run.updatedScenes)
    THEN [h |-> [h EXCEPT ![run.updatedScenes[run.i + 1]].isGenerating = TRUE],
          run |-> [run EXCEPT !.pc = "calling",
                              !.log = Append(@, [idx |-> run.i, res |-> "pending",
                                                 ref |-> run.character.imageBase64,
                                                 ctx |-> ContextVariant(run.character)])],
          done |-> FALSE]
    ELSE [h |-> h, run |-> run, done |-> TRUE]

RunEnd(run) ==
    [kind |-> "runEnd", n |-> Len(run.updatedScenes), log |-> run.log,
     clean |-> ~run.interrupted]

\* One synchronous stretch of handleGenerate in slot r, from heap h and record
\* run: setScenes([...updatedScenes]) and either the next await or the end
\* (after the analysis an empty loop ends without a setScenes). The flag is
\* set by setIsGenerating(true) before the first await and by
\* setIsGenerating(false) after the loop, and by nothing in between.
RunStretch(r, h, run, kind) ==
    LET it == EnterIteration(h, run)
    IN /\ isGenerating' = IF it.done THEN FALSE
                        ELSE (IF kind = "generate" THEN TRUE ELSE isGenerating)
       /\ latest' = IF it.done THEN (IF latest = r \/ kind = "generate" THEN 0 ELSE latest)
                    ELSE (IF kind = "generate" THEN r ELSE latest)
       /\ Commit(it.h,
                 IF it.done /\ kind = "runAnalysis" THEN scenes ELSE run.updatedScenes,
                 MarkOthers([runs EXCEPT ![r] = IF it.done THEN IdleRun ELSE it.run], r),
                 regens)
       /\ lastAct' = IF it.done THEN RunEnd(it.run) ELSE Act(kind, r)

FreeRunSlot(r) ==
    /\ runs[r].pc = "idle"
    /\ \A q \in RunSlots : q < r => runs[q].pc # "idle"

\* handleGenerate up to its first await. Generate Comics (style view,
\* disabled={!selectedStyle}) and StepResult's onRegenerateAll both call it.
HandleGenerate ==
    /\ Clickable
    /\ \/ View = "style" /\ selectedStyle # ""
       \/ View = "result"
    /\ \E r \in RunSlots :
          /\ FreeRunSlot(r)
          /\ LET n == Len(scenes)
                 h1 == heap \o [k \in 1..n |-> ResetScene(heap[scenes[k]])]
                 upd == [k \in 1..n |-> Len(heap) + k]
                 run == [pc |-> "analysis", i |-> 0, updatedScenes |-> upd,
                         log |-> <<>>, interrupted |-> FALSE,
                         character |-> character]
             IN IF character.imageBase64
                THEN /\ isGenerating' = TRUE
                     /\ latest' = r
                     /\ Commit(h1, upd, MarkOthers([runs EXCEPT ![r] = run], r), regens)
                     /\ lastAct' = Act("generate", r)
                ELSE RunStretch(r, h1, run, "generate")
    /\ step' = "result"
    /\ GenFrame /\ UNCHANGED crashed

\* analyzeCharacterFromImage returned to handleGenerate (it never rejects)
RunAnalysisReturn ==
    /\ ~crashed
    /\ \E r \in RunSlots :
          /\ runs[r].pc = "analysis"
          /\ RunStretch(r, heap, runs[r], "runAnalysis")
    /\ GenFrame /\ UNCHANGED <<step, crashed>>

\* generateImageFromPrompt returned (ok) or threw (~ok) in the loop of slot r
RunReturn ==
    /\ ~crashed
    /\ \E r \in RunSlots, ok \in BOOLEAN :
          /\ runs[r].pc = "calling"
          /\ LET run == runs[r]
                 a == run.updatedScenes[run.i + 1]
                 h1 == [heap EXCEPT ![a] = RecordOutcome(@, ok)]
                 res == IF ok THEN "ok" ELSE "fail"
                 run1 == [run EXCEPT !.log[Len(run.log)].res = res,
                                     !.i = IF ContinuesAfter(ok) THEN NextIndex(@)
                                           ELSE Len(run.updatedScenes)]
             IN RunStretch(r, h1, run1, "runReturn")
    /\ GenFrame /\ UNCHANGED <<step, crashed>>

\* ---- handleRegenerateSingle ---------------------------------------------------
\* (mutant) the updater marks every scene
RegenMark_all(h, sc, index) ==
    [a \in 1..Len(h) |->
        IF a \in Range(sc) THEN [h[a] EXCEPT !.isGenerating = TRUE, !.error = NoError]
        ELSE h[a]]

\* the first updater: updated[index].isGenerating = true; updated[index].error = null
RegenMark(h, sc, index) ==
    [h EXCEPT ![sc[index + 1]].isGenerating = TRUE, ![sc[index + 1]].error = NoError]

\* the updaters after the call: on prev[index], whatever scene is there now
RegenRecord(h, sc, index, ok) ==
    IF ok THEN [h EXCEPT ![sc[index + 1]].imageUrl = Image,
                         ![sc[index + 1]].isGenerating = FALSE]
    ELSE [h EXCEPT ![sc[index + 1]].error = RegenFailed,
                   ![sc[index + 1]].isGenerating = FALSE]

\* if (!sceneToRegen || sceneToRegen.isGenerating) return;
RegenAccepted(h, sc, index) ==
    /\ index >= 0 /\ index < Len(sc)
    /\ ~h[sc[index + 1]].isGenerating

\* From the analysis await (taken when a reference image exists) to the call
\* of generateImageFromPrompt, which reads sceneToRegen.description for the
\* prompt; after it only index is used. id: the scene the request is for.
RegenCall(rec, h, awaitsAnalysis) ==
    IF awaitsAnalysis THEN rec
    ELSE [rec EXCEPT !.pc = "calling", !.sceneToRegen = 0,
                     !.id = h[rec.sceneToRegen].id]

FreeRegenSlot(g) ==
    /\ regens[g].pc = "idle"
    /\ \A q \in RegenSlots : q < g => regens[q].pc # "idle"

\* StepResult's onRegenerate(id): handleRegenerateSingle(scenes.findIndex(...)),
\* up to its first await
HandleRegenerateSingle ==
    /\ Clickable /\ View = "result"
    /\ \E k \in 1..Len(scenes), g \in RegenSlots :
          LET index == FindIndex(heap, scenes, heap[scenes[k]].id) - 1
          IN /\ FreeRegenSlot(g)
             /\ RegenAccepted(heap, scenes, index)
             /\ Commit(RegenMark(heap, scenes, index), scenes, MarkOthers(runs, 0),
                       [regens EXCEPT ![g] =
                           RegenCall([pc |-> "analysis", index |-> index,
                                      sceneToRegen |-> scenes[index + 1], id |-> 0,
                                      before |-> heap[scenes[index + 1]].imageUrl],
                                     heap, character.imageBase64)])
             /\ lastAct' = Act("regen", index)
    /\ GenFrame /\ UNCHANGED <<step, isGenerating, latest, crashed>>

\* analyzeCharacterFromImage returned to handleRegenerateSingle
RegenAnalysisReturn ==
    /\ ~crashed
    /\ \E g \in RegenSlots :
          /\ regens[g].pc = "analysis"
          /\ Commit(heap, scenes, MarkOthers(runs, 0),
                    [regens EXCEPT ![g] = RegenCall(@, heap, FALSE)])
          /\ lastAct' = Act("regenAnalysis", regens[g].index)
    /\ GenFrame /\ UNCHANGED <<step, isGenerating, latest, crashed>>

\* generateImageFromPrompt returned or threw in handleRegenerateSingle. The
\* updater reads prev[index]: with no scene at that index it throws while React
\* renders, which unmounts the application.
RegenReturn ==
    /\ ~crashed
    /\ \E g \in RegenSlots, ok \in BOOLEAN :
          /\ regens[g].pc = "calling"
          /\ LET index == regens[g].index
                 gs == [regens EXCEPT ![g] = IdleRegen]
             IN IF index < Len(scenes)
                THEN /\ Commit(RegenRecord(heap, scenes, index, ok), scenes,
                               MarkOthers(runs, 0), gs)
                     /\ lastAct' = Act("regenReturn", index)
                     /\ GenFrame /\ UNCHANGED <<step, isGenerating, latest, crashed>>
                ELSE Unmount

\* ---- result view -----------------------------------------------------------
\* StepResult's onReset
ResultReset ==
    /\ Clickable /\ View = "result"
    /\ ResetTo("hero", 6)
    /\ UNCHANGED <<session, returnTo, signOutPending>>

\* (mutant) the error of a scene survives Back
BackScene_keepsError(s) == [s EXCEPT !.imageUrl = Undefined, !.isGenerating = FALSE]

\* prev.map(s => ({ ...s, imageUrl: undefined, isGenerating: false, error: null }))
BackScene(s) ==
    [s EXCEPT !.imageUrl = Undefined, !.isGenerating = FALSE, !.error = NoError]

\* StepResult's onBack
ResultBack ==
    /\ Clickable /\ View = "result"
    /\ LET n == Len(scenes)
       IN Commit(heap \o [k \in 1..n |-> BackScene(heap[scenes[k]])],
                 [k \in 1..n |-> Len(heap) + k], MarkOthers(runs, 0), regens)
    /\ step' = "style"
    /\ lastAct' = Act("back", 0)
    /\ GenFrame /\ UNCHANGED <<isGenerating, latest, crashed>>

\* ---- the application ---------------------------------------------------------
\* a click or keystroke is handled
User(A) ==
    /\ A
    /\ events' = (IF Pending THEN events + 1 ELSE 0)
    /\ UNCHANGED <<splitVars, bd, svc, mw, pr, au, um, sl>>

\* a promise settles, an auth event arrives or an effect runs
Async(A) ==
    /\ A
    /\ events' = (IF PendingIn(runs', regens', analyzePending', uploadPending',
                               signOutPending')
                  THEN events ELSE 0)
    /\ UNCHANGED <<splitVars, bd, svc, mw, pr, au, um, sl>>

Next ==
    \/ Async(GetSessionResolved) \/ Async(PostLoginRedirect)
    \/ User(AuthSignedIn) \/ Async(AuthSignedOut)
    \/ User(HandleSignOut) \/ Async(HandleSignOutResume)
    \/ User(HandleStart) \/ User(HandleLogoClick) \/ User(NavigateToAuth)
    \/ User(OpenGallery) \/ User(GalleryBack) \/ User(GalleryCreate)
    \/ User(SetCharacterDescription) \/ User(HandleCharacterUpload)
    \/ Async(UploadLoadEnd)
    \/ User(RemoveCharacterImage) \/ User(CharacterBack) \/ User(CharacterNext)
    \/ User(SetRawStory) \/ User(AddScene) \/ User(DeleteScene)
    \/ User(EditDescription) \/ User(StoryClearOrBack) \/ User(StoryNext)
    \/ User(HandleAnalyzeStory) \/ Async(AnalyzeReturn)
    \/ User(SetSelectedStyle) \/ User(StyleBack)
    \/ User(HandleGenerate) \/ Async(RunAnalysisReturn) \/ Async(RunReturn)
    \/ User(HandleRegenerateSingle) \/ Async(RegenAnalysisReturn)
    \/ Async(RegenReturn)
    \/ User(ResultReset) \/ User(ResultBack)

Spec == Init /\ [][Next]_vars

\* ---- breakdownStory: the fallback split -----------------------------------------
\* the character class of storyText.split(/[...]+/)
\* (the ideographic full stop and the fullwidth marks by their code points)
Terminators == {".", "u3002", "!", "uFF01", "?", "uFF1F", "\n"}
Whitespace == {" ", "\t", "\n"}

\* what the user types, chunk by chunk
Chunks ==
    {<<"a", "b", "c", "d", "e", "f">>, <<"a", "b", "c">>, <<" ">>, <<".">>, <<"\n">>}

RECURSIVE Flatten(_)
Flatten(cs) == IF cs = <<>> THEN <<>> ELSE Head(cs) \o Flatten(Tail(cs))

\* String.prototype.split on one or more terminators: the pieces between the
\* maximal runs of terminators, empty pieces at both ends included
RECURSIVE SplitFrom(_, _, _, _)
SplitFrom(s, k, cur, inRun) ==
    IF k > Len(s) THEN <<cur>>
    ELSE IF s[k] \in Terminators
         THEN IF inRun THEN SplitFrom(s, k + 1, <<>>, TRUE)
              ELSE <<cur>> \o SplitFrom(s, k + 1, <<>>, TRUE)
         ELSE SplitFrom(s, k + 1, Append(cur, s[k]), FALSE)

SplitSentences(s) == SplitFrom(s, 1, <<>>, FALSE)

\* String.prototype.trim
RECURSIVE TrimLeft(_)
TrimLeft(s) ==
    IF s # <<>> /\ Head(s) \in Whitespace THEN TrimLeft(Tail(s)) ELSE s

RECURSIVE TrimRight(_)
TrimRight(s) ==
    IF s # <<>> /\ s[Len(s)] \in Whitespace
    THEN TrimRight(SubSeq(s, 1, Len(s) - 1)) ELSE s

TrimSeq(s) == TrimRight(TrimLeft(s))

\* (mutant) the filter measures the untrimmed sentence
KeepSentence_untrimmed(s) == Len(s) > MinSentenceLen

\* .filter(s => s.trim().length > 5)
KeepSentence(s) == Len(TrimSeq(s)) > MinSentenceLen

\* .slice(0, 6)
Slice(ss) == SubSeq(ss, 1, IF Len(ss) < MaxFallbackScenes THEN Len(ss)
                           ELSE MaxFallbackScenes)

\* the catch block of breakdownStory: the descriptions of the scenes returned
FallbackSplit(text) ==
    LET sentences == SelectSeq(SplitSentences(text), KeepSentence)
        kept == Slice(sentences)
    IN [k \in 1..Len(kept) |-> TrimSeq(kept[k])]

TypeChunk ==
    /\ ~fallbackRan /\ Len(storyText) < MaxChunks
    /\ \E c \in Chunks : storyText' = Append(storyText, c)
    /\ UNCHANGED <<fallbackOut, fallbackRan>>
    /\ UNCHANGED <<appVars, bd, svc, mw, pr, au, um, sl>>

\* the model call failed: breakdownStory(storyText) runs its catch block
BreakdownFallback ==
    /\ ~fallbackRan
    /\ fallbackOut' = FallbackSplit(Flatten(storyText))
    /\ fallbackRan' = TRUE
    /\ UNCHANGED storyText
    /\ UNCHANGED <<appVars, bd, svc, mw, pr, au, um, sl>>

SplitNext == TypeChunk \/ BreakdownFallback

SplitSpec == Init /\ [][SplitNext]_vars

\* ---- breakdownStory and handleAnalyzeStory -----------------------------------
\* JSON texts are sequences of tokens; a string literal is one token
Literals == {"description", "scenes", "A", "B"}

\* the values JSON.parse returns
Json(tag, str, items, keys) == [tag |-> tag, str |-> str, items |-> items, keys |-> keys]
SyntaxError == [ok |-> FALSE, val |-> Json("null", "", <<>>, <<>>), next |-> 0]
Parsed(v, n) == [ok |-> TRUE, val |-> v, next |-> n]

\* JSON.parse, by recursive descent on the tokens
RECURSIVE ParseValue(_, _)
RECURSIVE ParseElems(_, _, _)
RECURSIVE ParseMembers(_, _, _, _)
ParseValue(t, p) ==
    IF p > Len(t) THEN SyntaxError
    ELSE CASE t[p] = "[" ->
                 IF p + 1 <= Len(t) /\ t[p + 1] = "]"
                 THEN Parsed(Json("arr", "", <<>>, <<>>), p + 2)
                 ELSE ParseElems(t, p + 1, <<>>)
           [] t[p] = "{" ->
                 IF p + 1 <= Len(t) /\ t[p + 1] = "}"
                 THEN Parsed(Json("obj", "", <<>>, <<>>), p + 2)
                 ELSE ParseMembers(t, p + 1, <<>>, <<>>)
           [] t[p] = "null" -> Parsed(Json("null", "", <<>>, <<>>), p + 1)
           [] t[p] \in Literals -> Parsed(Json("str", t[p], <<>>, <<>>), p + 1)
           [] OTHER -> SyntaxError

ParseElems(t, p, acc) ==
    LET v == ParseValue(t, p)
    IN IF ~v.ok \/ v.next > Len(t) THEN SyntaxError
       ELSE IF t[v.next] = "," THEN ParseElems(t, v.next + 1, Append(acc, v.val))
       ELSE IF t[v.next] = "]"
            THEN Parsed(Json("arr", "", Append(acc, v.val), <<>>), v.next + 1)
       ELSE SyntaxError

ParseMembers(t, p, ks, vs) ==
    IF p + 1 > Len(t) \/ t[p] \notin Literals \/ t[p + 1] # ":" THEN SyntaxError
    ELSE LET v == ParseValue(t, p + 2)
         IN IF ~v.ok \/ v.next > Len(t) THEN SyntaxError
            ELSE IF t[v.next] = ","
                 THEN ParseMembers(t, v.next + 1, Append(ks, t[p]), Append(vs, v.val))
            ELSE IF t[v.next] = "}"
                 THEN Parsed(Json("obj", "", Append(vs, v.val), Append(ks, t[p])),
                             v.next + 1)
            ELSE SyntaxError

JsonParse(t) ==
    LET v == ParseValue(t, 1)
    IN IF v.ok /\ v.next = Len(t) + 1 THEN v ELSE SyntaxError

\* response.text || "[]"
ResponseText(text) == IF text = <<>> THEN <<"[", "]">> ELSE text

\* item.description: undefined when the field is missing
ItemDescription(v) ==
    IF v.tag = "obj" /\ \E k \in 1..Len(v.keys) : v.keys[k] = "description"
    THEN LET k == CHOOSE j \in 1..Len(v.keys) :
                     /\ v.keys[j] = "description"
                     /\ \A i \in (j + 1)..Len(v.keys) : v.keys[i] # "description"
         IN IF v.items[k].tag = "str"
            THEN [description |-> <<v.items[k].str>>, defined |-> TRUE]
            ELSE [description |-> <<>>, defined |-> FALSE]
    ELSE [description |-> <<>>, defined |-> FALSE]

\* what the model answers: the items it describes, rendered as JSON text: a
\* bare array or an object holding it, between the lines of a Markdown code
\* fence ("fence json", "fence") or not
Render(items, wrap, fenced) ==
    LET ItemTokens(it) ==
            IF it = "null" THEN <<"null">> ELSE <<"{", "description", ":", it, "}">>
        RECURSIVE ElemTokens(_)
        ElemTokens(its) ==
            IF its = <<>> THEN <<>>
            ELSE IF Len(its) = 1 THEN ItemTokens(its[1])
            ELSE ItemTokens(its[1]) \o <<",">> \o ElemTokens(Tail(its))
        array == <<"[">> \o ElemTokens(items) \o <<"]">>
        body == IF wrap = "object" THEN <<"{", "scenes", ":">> \o array \o <<"}">>
                ELSE array
    IN IF fenced THEN <<"fence json">> \o body \o <<"fence">> ELSE body

\* how ai.models.generateContent can end for breakdownStory: in an error, or
\* with a text
Outcomes ==
    {[kind |-> k, text |-> <<>>, items |-> <<>>, wrap |-> "none", fenced |-> FALSE] :
        k \in {"config", "transport", "vendor"}}
    \cup {[kind |-> "text", text |-> Render(items, wrap, fenced), items |-> items,
           wrap |-> wrap, fenced |-> fenced] :
             items \in UNION {[1..n -> {"A", "B"}] : n \in 0..MaxItems},
             wrap \in {"bare", "object"}, fenced \in BOOLEAN}
    \cup {[kind |-> "text", text |-> <<>>, items |-> <<>>, wrap |-> "empty",
           fenced |-> FALSE],
          [kind |-> "text", text |-> <<"[", "{">>, items |-> <<>>,
           wrap |-> "malformed", fenced |-> FALSE],
          [kind |-> "text", text |-> Render(<<"A", "null">>, "bare", FALSE),
           items |-> <<"A", "null">>, wrap |-> "bare", fenced |-> FALSE]}

\* the catch block's scenes
FallbackScenes(text) ==
    LET ds == FallbackSplit(text)
    IN [k \in 1..Len(ds) |-> [description |-> ds[k], defined |-> TRUE]]

\* parsed.map((item, index) => ({ ..., description: item.description, ... }))
ParsedScenes_skipFirst(items) ==
    [k \in 1..(Len(items) - 1) |-> ItemDescription(items[k + 1])]

ParsedScenes(items) == [k \in 1..Len(items) |-> ItemDescription(items[k])]

\* (mutant) no catch block: the error reaches the caller
OnError_rethrow(text) == [path |-> "none", out |-> <<>>, threw |-> TRUE]

\* catch (error) { ... return sentences.slice(0, 6).map(...) }
OnError(text) == [path |-> "fallback", out |-> FallbackScenes(text), threw |-> FALSE]

\* breakdownStory(storyText) when generateContent ended with outcome; reading
\* description of a null item is a TypeError
BreakdownStory(text, outcome) ==
    IF outcome.kind # "text" THEN OnError(text)
    ELSE LET v == JsonParse(ResponseText(outcome.text))
         IN IF ~v.ok THEN OnError(text)
            ELSE IF v.val.tag # "arr" THEN OnError(text)
            ELSE IF \E k \in 1..Len(v.val.items) : v.val.items[k].tag = "null"
                 THEN OnError(text)
            ELSE [path |-> "parsed", out |-> ParsedScenes(v.val.items),
                  threw |-> FALSE]

\* the narrative is typed sentence by sentence
TypeSentence ==
    /\ bd.pc = "idle" /\ Len(storyText) < MaxSentences
    /\ \E c \in {<<"a", "b", "c", "d", "e", "f", ".">>,
                 <<" ", "a", "b", "c", "d", "e", "f", "g", "!">>,
                 <<"a", "b", "c", "\n">>} : storyText' = Append(storyText, c)
    /\ UNCHANGED <<fallbackOut, fallbackRan, bd, svc, mw, pr, au, um, sl>>
    /\ UNCHANGED appVars

\* handleAnalyzeStory up to the return of breakdownStory(rawStory)
AnalyzeStoryCall ==
    /\ bd.pc = "idle"
    /\ TrimSeq(Flatten(storyText)) # <<>>
    /\ \E o \in Outcomes :
          LET r == BreakdownStory(Flatten(storyText), o)
          IN bd' = [pc |-> "returned", outcome |-> o, path |-> r.path, out |-> r.out,
                    threw |-> r.threw, stored |-> <<>>, errorMsg |-> ""]
    /\ UNCHANGED <<splitVars, svc, mw, pr, au, um, sl>>
    /\ UNCHANGED appVars

\* handleAnalyzeStory after its await: setScenes(newScenes), or its catch
AnalyzeStoryResume ==
    /\ bd.pc = "returned"
    /\ bd' = IF bd.threw
             THEN [bd EXCEPT !.pc = "stored", !.errorMsg = AnalyzeFailed,
                             !.stored = <<[description |-> Flatten(storyText),
                                           defined |-> TRUE]>>]
             ELSE [bd EXCEPT !.pc = "stored", !.stored = bd.out]
    /\ UNCHANGED <<splitVars, svc, mw, pr, au, um, sl>>
    /\ UNCHANGED appVars

BreakdownSpec ==
    Init /\ [][TypeSentence \/ AnalyzeStoryCall \/ AnalyzeStoryResume]_vars

\* ---- analyzeCharacterFromImage and generateImageFromPrompt --------------------
Returned(v) == [kind |-> "returned", value |-> v]
Threw(m) == [kind |-> "threw", value |-> m]

\* base64Image.match(/^data:(.+);base64,(.+)$/) on the tokens of base64Image;
\* '.' matches no line break
MatchesDataUri(s) ==
    /\ Len(s) >= 4 /\ s[1] = "data:"
    /\ \A k \in 2..Len(s) : s[k] # "\n"
    /\ \E j \in 3..(Len(s) - 1) : s[j] = ";base64,"

\* (mutant) the catch block lets the error through
AnalyzeCatch_rethrow == Threw("Character Analysis Error")

\* catch (error) { ...; return ""; }
AnalyzeCatch == Returned("")

\* analyzeCharacterFromImage(base64Image): clientThrows, getClient() throws on
\* a missing key; vendor, how generateContent ends
AnalyzeCharacterFromImage(apiKey, clientThrows, image, vendor) ==
    IF ~apiKey /\ clientThrows THEN [result |-> AnalyzeCatch, checks |-> 0]
    ELSE IF ~MatchesDataUri(image) THEN [result |-> Returned(""), checks |-> 0]
    ELSE IF ~apiKey \/ vendor = "reject" THEN [result |-> AnalyzeCatch, checks |-> 1]
    ELSE [result |-> Returned(IF vendor = "empty" THEN "" ELSE "traits"),
          checks |-> 1]

\* (mutant) the catch block returns a placeholder image
GenerateCatch_placeholder == Returned("placeholder 1x1")

\* catch (error) { ...; throw new Error("Failed to generate image."); }
GenerateCatch == Threw("Failed to generate image.")

\* generateImageFromPrompt: one generateContent request; the first part with
\* inlineData is returned as a data URL, anything else ends in the catch block
GenerateImageFromPrompt(apiKey, clientThrows, vendor) ==
    IF ~apiKey /\ clientThrows THEN [result |-> GenerateCatch, checks |-> 0]
    ELSE IF ~apiKey \/ vendor # "image part"
         THEN [result |-> GenerateCatch, checks |-> 1]
    ELSE [result |-> Returned(Image), checks |-> 1]

\* base64Image is a sequence of tokens: the literal pieces of a data URI,
\* another character and a line break
AnalyzeCharacterCall ==
    /\ svc.pc = "idle"
    /\ \E apiKey \in BOOLEAN, clientThrows \in BOOLEAN,
          image \in UNION {[1..n -> {"data:", "x", ";base64,", "\n"}] :
                               n \in 0..MaxImageTokens},
          vendor \in {"reject", "empty", "text"} :
          LET r == AnalyzeCharacterFromImage(apiKey, clientThrows, image, vendor)
          IN svc' = [pc |-> "done", fn |-> "analyze", apiKey |-> apiKey,
                     image |-> image, vendor |-> vendor, statuses |-> <<>>,
                     result |-> r.result, checks |-> r.checks]
    /\ UNCHANGED <<splitVars, bd, mw, pr, au, um, sl>>
    /\ UNCHANGED appVars

\* the one generateContent request is rejected, or answers with no candidate,
\* a text part only, or an image part
GenerateImageCall ==
    /\ svc.pc = "idle"
    /\ \E apiKey \in BOOLEAN, clientThrows \in BOOLEAN,
          vendor \in {"reject", "no candidates", "text part", "image part"} :
          LET r == GenerateImageFromPrompt(apiKey, clientThrows, vendor)
          IN svc' = [pc |-> "done", fn |-> "generate", apiKey |-> apiKey,
                     image |-> <<>>, vendor |-> vendor, statuses |-> <<>>,
                     result |-> r.result, checks |-> r.checks]
    /\ UNCHANGED <<splitVars, bd, mw, pr, au, um, sl>>
    /\ UNCHANGED appVars

\* ---- the asynchronous submit/poll adapter -------------------------------------
\* the poll loop gives up after this many status checks
MaxAttempts == 30

\* submit the job and obtain a task identifier; the task reports RUNNING at
\* some number of checks, then possibly a terminal status
SubmitTask ==
    /\ svc.pc = "idle"
    /\ \E n \in 0..MaxStatuses, f \in {<<>>, <<"SUCCEEDED">>, <<"FAILED">>} :
          /\ n + Len(f) > 0
          /\ svc' = [pc |-> "polling", fn |-> "poll", apiKey |-> TRUE, image |-> <<>>,
                     vendor |-> "task", statuses |-> [k \in 1..n |-> "RUNNING"] \o f,
                     result |-> [kind |-> "none", value |-> ""], checks |-> 0]
    /\ UNCHANGED <<splitVars, bd, mw, pr, au, um, sl>>
    /\ UNCHANGED appVars

\* (mutant) the loop checks the attempt count before the status
PollOutcome_countFirst(status, attempt) ==
    IF attempt >= MaxAttempts THEN Threw("timeout")
    ELSE IF status = "SUCCEEDED" THEN Returned(Image)
    ELSE IF status = "FAILED" THEN Threw("task failed")
    ELSE [kind |-> "none", value |-> ""]

\* one status check: SUCCEEDED fetches the result, FAILED raises, and the last
\* attempt without a terminal status raises a timeout
PollOutcome(status, attempt) ==
    IF status = "SUCCEEDED" THEN Returned(Image)
    ELSE IF status = "FAILED" THEN Threw("task failed")
    ELSE IF attempt >= MaxAttempts THEN Threw("timeout")
    ELSE [kind |-> "none", value |-> ""]

\* one tick of the poll loop; the task keeps the last status it reported
PollTick ==
    /\ svc.pc = "polling"
    /\ LET attempt == svc.checks + 1
           status == svc.statuses[IF attempt <= Len(svc.statuses) THEN attempt
                                  ELSE Len(svc.statuses)]
           r == PollOutcome(status, attempt)
       IN svc' = [svc EXCEPT !.checks = attempt, !.result = r,
                             !.pc = IF r.kind = "none" THEN "polling" ELSE "done"]
    /\ UNCHANGED <<splitVars, bd, mw, pr, au, um, sl>>
    /\ UNCHANGED appVars

ServiceSpec ==
    Init /\ [][AnalyzeCharacterCall \/ GenerateImageCall \/ SubmitTask \/ PollTick]_vars

\* ---- the social preview middleware --------------------------------------------
\* .substring(0, 50)
TitleLimit == 50

\* id.includes('.'), on the characters of the last path segment
IncludesDot(id) == \E k \in 1..Len(id) : id[k] = "."

\* image.caption: null, a value that is not a string, or a string: letters
\* and double quotes, of a length near the truncation limit
Captions ==
    {[kind |-> "null", chars |-> <<>>], [kind |-> "number", chars |-> <<>>]}
        \cup {[kind |-> "string", chars |-> [k \in 1..n |-> "a"] \o t] :
                 n \in {0} \cup ((TitleLimit - MaxCut)..TitleLimit),
                 t \in {<<>>, <<"\"">>, <<"\"", "a">>, <<"\"", "\"">>}}

\* .replace(/"/g, '&quot;')
RECURSIVE EscapeQuotes(_)
EscapeQuotes(s) ==
    IF s = <<>> THEN <<>>
    ELSE (IF Head(s) = "\"" THEN <<"&", "q", "u", "o", "t", ";">> ELSE <<Head(s)>>)
             \o EscapeQuotes(Tail(s))

\* (image.caption || 'StoryBoard AI').replace(/"/g, '&quot;').substring(0, 50);
\* the default title is kept as one token
SafeTitle(caption) ==
    LET s == EscapeQuotes(IF caption.chars = <<>> THEN <<"StoryBoard AI">>
                          ELSE caption.chars)
    IN SubSeq(s, 1, IF Len(s) < TitleLimit THEN Len(s) ELSE TitleLimit)

\* index.html is a sequence of tokens: the opening of an og:image meta tag up
\* to the quote that closes its property, the end of a tag, a line break, the
\* end of the head, and other text without any of these
OgImageOpen == "<meta property=\"og:image\""

\* html.replace(/<open>.*?<end>/g, ''): the lazy .*? begun at h[1] ends at the
\* first token of ends, if no line break comes before it
RECURSIVE StripTag(_, _, _)
StripTag(h, open, ends) ==
    LET J == {j \in 2..Len(h) :
                 h[j] \in ends /\ \A k \in 2..(j - 1) : h[k] # "\n" /\ h[k] \notin ends}
    IN IF h = <<>> THEN <<>>
       ELSE IF Head(h) = open /\ J # {}
            THEN StripTag(SubSeq(h, (CHOOSE j \in J : TRUE) + 1, Len(h)), open, ends)
       ELSE <<Head(h)>> \o StripTag(Tail(h), open, ends)

\* the eight replace calls, in their order; a meta tag ends at a token that
\* ends in '>'
CleanedHtml(html) ==
    LET ends == {">", "</head>"}
        h1 == StripTag(html, "<title>", {"</title>"})
        h2 == StripTag(h1, "<meta property=\"og:title\"", ends)
        h3 == StripTag(h2, "<meta property=\"og:description\"", ends)
        h4 == StripTag(h3, OgImageOpen, ends)
        h5 == StripTag(h4, "<meta name=\"twitter:title\"", ends)
        h6 == StripTag(h5, "<meta name=\"twitter:description\"", ends)
        h7 == StripTag(h6, "<meta name=\"twitter:image\"", ends)
    IN StripTag(h7, "<meta name=\"twitter:card\"", ends)

\* newMetaTags: each ${...} is one token, named by what it holds
NewMetaTags(imageUrl) ==
    <<"\n", "<title>", "${safeTitle}", "</title>", "\n",
      "<meta property=\"og:title\"", "${safeTitle}", ">", "\n",
      "<meta property=\"og:description\"", "${description}", ">", "\n",
      OgImageOpen, imageUrl, ">", "\n",
      "<meta property=\"og:image:width\"", "1024", ">", "\n",
      "<meta property=\"og:image:height\"", "1024", ">", "\n", "\n",
      "<meta name=\"twitter:card\"", "summary_large_image", ">", "\n",
      "<meta name=\"twitter:title\"", "${safeTitle}", ">", "\n",
      "<meta name=\"twitter:description\"", "${description}", ">", "\n",
      "<meta name=\"twitter:image\"", imageUrl, ">", "\n">>

\* cleanedHtml.replace('</head>', `${newMetaTags}</head>`): the first
\* occurrence only, and nothing where there is none
ModifiedHtml(h, tags) ==
    IF \E i \in 1..Len(h) : h[i] = "</head>"
    THEN LET i == CHOOSE i \in 1..Len(h) :
                    h[i] = "</head>" /\ \A j \in 1..(i - 1) : h[j] # "</head>"
         IN SubSeq(h, 1, i - 1) \o tags \o SubSeq(h, i, Len(h))
    ELSE h

\* (mutant) the check for a row is missing
RowMissing_never(db) == FALSE

\* image = data && data.length > 0 ? data[0] : null;
\* if (!image) return fetch(request)
RowMissing(db) == db # "row"

\* middleware(request): db, how the row lookup ends; index, how the fetch of
\* /index.html ends; passthrough is fetch(request)
Middleware(id, db, index, html, caption, imageUrl) ==
    LET passthrough == [kind |-> "passthrough", html |-> <<>>, safeTitle |-> <<>>,
                        description |-> <<>>]
    IN IF id = <<>> \/ IncludesDot(id) THEN passthrough
       ELSE IF db \in {"throws", "not ok", "bad json"} THEN passthrough
       ELSE IF RowMissing(db) THEN passthrough
       ELSE IF index = "throws" \/ caption.kind = "number" THEN passthrough
       ELSE [kind |-> "rewritten",
             html |-> ModifiedHtml(CleanedHtml(html), NewMetaTags(imageUrl)),
             safeTitle |-> SafeTitle(caption),
             description |-> <<"Check out this comic panel: ", "\"">>
                                \o SafeTitle(caption) \o <<".", ".", ".", "\"">>]

\* the row lookup ends with a rejected fetch, a response that is not ok, a
\* body json() rejects, or a body that parses to null, to an object that is no
\* array, to [] or to [row]
MiddlewareCall ==
    /\ mw.pc = "idle"
    /\ \E id \in {<<>>, <<"a">>, <<".">>, <<"a", ".", "p">>},
          db \in {"throws", "not ok", "bad json", "null", "object", "empty", "row"},
          index \in {"throws", "ok"} :
          LET reads == id # <<>> /\ ~IncludesDot(id) /\ db = "row" /\ index = "ok"
              noCaption == [kind |-> "null", chars |-> <<>>]
          IN \E html \in (IF reads
                          THEN UNION {[1..n -> {OgImageOpen, ">", "\n", "</head>", "x"}] :
                                         n \in 0..MaxHtml}
                          ELSE {<<>>}),
                caption \in (IF reads THEN Captions ELSE {noCaption}),
                imageUrl \in (IF reads THEN {"https://x/y.png", "https://x/z.png"}
                              ELSE {"https://x/y.png"}) :
                mw' = [pc |-> "done", id |-> id, db |-> db, index |-> index,
                       html |-> html, caption |-> caption, imageUrl |-> imageUrl,
                       out |-> Middleware(id, db, index, html, caption, imageUrl)]
    /\ UNCHANGED <<splitVars, bd, svc, pr, au, um, sl>>
    /\ UNCHANGED appVars

MwSpec == Init /\ [][MiddlewareCall]_vars

\* ---- the prompt composer ------------------------------------------------------
\* (mutant) only the first id counts as frameless
IsFrameless_doodleOnly(style) == style = "doodle"

\* selectedStyle === 'doodle' || ... 'lineart' || ... 'corporate' || ... 'loose'
IsFrameless(style) == style \in {"doodle", "lineart", "corporate", "loose"}

\* (mutant) the description is tested as typed
HasDescription_untrimmed(d) == d # <<>>

\* character.description.trim()
HasDescription(d) == TrimSeq(d) # <<>>

\* characterContext
CharacterContext(refImage, description, visualAnalysis) ==
    IF refImage /\ HasDescription(description)
    THEN <<"**VISUAL ANCHOR**: The attached image is the REFERENCE for the MAIN CHARACTER.",
           "**USER INSTRUCTIONS**:">> \o description
            \o <<".", "**CONSISTENCY RULE**: Combine the facial features",
                 "**MANDATORY TRAITS FROM IMAGE**:">> \o visualAnalysis
    ELSE IF refImage
    THEN <<"**VISUAL ANCHOR**: The attached image is the REFERENCE for the MAIN CHARACTER.",
           "**MANDATORY TRAITS**:">>
            \o (IF visualAnalysis # <<>> THEN visualAnalysis
                ELSE <<"Match the reference image exactly.">>)
            \o <<"**INSTRUCTION**: The Main Character in the generated panel MUST look identical">>
    ELSE IF HasDescription(description)
    THEN <<"**MAIN CHARACTER PROFILE**:">> \o description
            \o <<".", "**CONSISTENCY RULE**: Maintain this specific appearance">>
    ELSE <<"**MAIN CHARACTER**: A generic user persona">>

\* compositionRules
CompositionRules(isFrameless) ==
    IF isFrameless THEN "Draw a single isolated spot illustration on a pure white background."
    ELSE "Draw exactly ONE comic panel with a clear frame."

\* negativeRules
NegativeRules(isFrameless) ==
    IF isFrameless THEN "frame, border, square box, bounding box"
    ELSE "Do not create a grid; generate a single image."

\* finalPrompt; stylePrompt is styleData ? styleData.promptModifier : '', and
\* a modifier stands as the id of its style
FinalPrompt(style, characterContext, description, index) ==
    <<"**ROLE**: Professional Comic Book Artist.", "**VISUAL STYLE**:">>
        \o (IF style = "" THEN <<>> ELSE <<style>>) \o <<".">> \o characterContext
        \o <<"**SCENE SCRIPT (Panel", ToString(index + 1), ")**:">> \o description
        \o <<".", "**COMPOSITION GUIDELINES**:", "1.", CompositionRules(IsFrameless(style)),
             "2. **CAMERA DISTANCE**", "3. Focus on the MAIN CHARACTER",
             "4. If other people are in the scene", "5. Backgrounds should be clean",
             "**NEGATIVE PROMPT**:", "Do not change the Main Character's outfit or hair",
             NegativeRules(IsFrameless(style))>>

\* (mutant) the panel is numbered by the index itself
RegenPrompt_fromZero(style, refImage, d, va, scene, index) ==
    LET isFrameless == style = "doodle" \/ style = "lineart" \/ style = "corporate"
                          \/ style = "loose"
        characterContext ==
            IF refImage /\ TrimSeq(d) # <<>>
            THEN <<"**VISUAL ANCHOR**: The attached image is the REFERENCE for the MAIN CHARACTER.",
                   "**USER INSTRUCTIONS**:">> \o d
                    \o <<".", "**CONSISTENCY RULE**: Combine the facial features",
                         "**MANDATORY TRAITS FROM IMAGE**:">> \o va
            ELSE IF refImage
            THEN <<"**VISUAL ANCHOR**: The attached image is the REFERENCE for the MAIN CHARACTER.",
                   "**MANDATORY TRAITS**:">>
                    \o (IF va # <<>> THEN va ELSE <<"Match the reference image exactly.">>)
                    \o <<"**INSTRUCTION**: The Main Character in the generated panel MUST look identical">>
            ELSE IF TrimSeq(d) # <<>>
            THEN <<"**MAIN CHARACTER PROFILE**:">> \o d
                    \o <<".", "**CONSISTENCY RULE**: Maintain this specific appearance">>
            ELSE <<"**MAIN CHARACTER**: A generic user persona">>
        compositionRules ==
            IF isFrameless
            THEN "Draw a single isolated spot illustration on a pure white background."
            ELSE "Draw exactly ONE comic panel with a clear frame."
        negativeRules ==
            IF isFrameless THEN "frame, border, square box, bounding box"
            ELSE "Do not create a grid; generate a single image."
    IN <<"**ROLE**: Professional Comic Book Artist.", "**VISUAL STYLE**:">>
          \o (IF style = "" THEN <<>> ELSE <<style>>) \o <<".">> \o characterContext
          \o <<"**SCENE SCRIPT (Panel", ToString(index), ")**:">> \o scene
          \o <<".", "**COMPOSITION GUIDELINES**:", "1.", compositionRules,
               "2. **CAMERA DISTANCE**", "3. Focus on the MAIN CHARACTER",
               "4. If other people are in the scene", "5. Backgrounds should be clean",
               "**NEGATIVE PROMPT**:", "Do not change the Main Character's outfit or hair",
               negativeRules>>

\* finalPrompt of handleRegenerateSingle for the scene at index: the handler has
\* its own copy of the composition (styleData, isFrameless, characterContext,
\* compositionRules, negativeRules, the template), on the same tokens
RegenPrompt(style, refImage, d, va, scene, index) ==
    LET isFrameless == style = "doodle" \/ style = "lineart" \/ style = "corporate"
                          \/ style = "loose"
        characterContext ==
            IF refImage /\ TrimSeq(d) # <<>>
            THEN <<"**VISUAL ANCHOR**: The attached image is the REFERENCE for the MAIN CHARACTER.",
                   "**USER INSTRUCTIONS**:">> \o d
                    \o <<".", "**CONSISTENCY RULE**: Combine the facial features",
                         "**MANDATORY TRAITS FROM IMAGE**:">> \o va
            ELSE IF refImage
            THEN <<"**VISUAL ANCHOR**: The attached image is the REFERENCE for the MAIN CHARACTER.",
                   "**MANDATORY TRAITS**:">>
                    \o (IF va # <<>> THEN va ELSE <<"Match the reference image exactly.">>)
                    \o <<"**INSTRUCTION**: The Main Character in the generated panel MUST look identical">>
            ELSE IF TrimSeq(d) # <<>>
            THEN <<"**MAIN CHARACTER PROFILE**:">> \o d
                    \o <<".", "**CONSISTENCY RULE**: Maintain this specific appearance">>
            ELSE <<"**MAIN CHARACTER**: A generic user persona">>
        compositionRules ==
            IF isFrameless
            THEN "Draw a single isolated spot illustration on a pure white background."
            ELSE "Draw exactly ONE comic panel with a clear frame."
        negativeRules ==
            IF isFrameless THEN "frame, border, square box, bounding box"
            ELSE "Do not create a grid; generate a single image."
    IN <<"**ROLE**: Professional Comic Book Artist.", "**VISUAL STYLE**:">>
          \o (IF style = "" THEN <<>> ELSE <<style>>) \o <<".">> \o characterContext
          \o <<"**SCENE SCRIPT (Panel", ToString(index + 1), ")**:">> \o scene
          \o <<".", "**COMPOSITION GUIDELINES**:", "1.", compositionRules,
               "2. **CAMERA DISTANCE**", "3. Focus on the MAIN CHARACTER",
               "4. If other people are in the scene", "5. Backgrounds should be clean",
               "**NEGATIVE PROMPT**:", "Do not change the Main Character's outfit or hair",
               negativeRules>>

\* the prompt handleGenerate builds for scene i, and handleRegenerateSingle
\* for the scene at index, each with the second argument of its call,
\* refImage = character.imageBase64 || undefined: selectedStyle is one of the four ids the handlers
\* name, another id, or no choice; the descriptions are sequences of tokens
ComposePrompt ==
    /\ pr.pc = "idle"
    /\ \E style \in {"doodle", "lineart", "corporate", "loose", "comic", ""},
          refImage \in BOOLEAN,
          d \in UNION {[1..n -> {"w", " ", "\n"}] : n \in 0..MaxDescTokens},
          va \in {<<>>, <<"traits">>},
          scene \in UNION {[1..n -> {"w", " "}] : n \in 0..MaxSceneTokens},
          index \in 0..(MaxPanels - 1) :
          /\ ~refImage => va = <<>>
          /\ pr' = [pc |-> "done", style |-> style, refImage |-> refImage,
                    description |-> d, visualAnalysis |-> va, scene |-> scene,
                    index |-> index,
                    prompt |-> FinalPrompt(style, CharacterContext(refImage, d, va),
                                           scene, index),
                    image |-> IF refImage THEN Image ELSE Undefined,
                    regenPrompt |-> RegenPrompt(style, refImage, d, va, scene, index),
                    regenImage |-> IF refImage THEN Image ELSE Undefined]
    /\ UNCHANGED <<splitVars, bd, svc, mw, au, um, sl>>
    /\ UNCHANGED appVars

PromptSpec == Init /\ [][ComposePrompt]_vars

\* ---- the session and the view on screen, render by render -------------------
\* App's session, step and returnTo followed at the grain of single renders.
\* React 18 renders once after all the setState calls of a callback; earlier
\* versions render after each setState made outside a React event handler, as
\* in the onAuthStateChange listener. The React version is not fixed by the
\* source, so the listener's render after setSession(null) is a choice.
\* a render of App with the state next
AuRender(next) ==
    /\ au.renders < MaxRenders
    /\ au' = [next EXCEPT !.view = Rendered(next.checkingSession, next.step, next.session),
                          !.renders = au.renders + 1]
    /\ UNCHANGED <<appVars, splitVars, bd, svc, mw, pr, um, sl>>

\* supabase.auth.getSession().then(...)
AuGetSession ==
    /\ au.checkingSession /\ au.pc = "idle"
    /\ \E s \in BOOLEAN : AuRender([au EXCEPT !.session = s, !.checkingSession = FALSE])

\* the Post-Login Redirect Effect
AuRedirect ==
    /\ au.pc = "idle" /\ au.session /\ au.step = "auth"
    /\ AuRender([au EXCEPT !.step = RedirectTarget(au.returnTo), !.returnTo = "null"])

\* the onAuthStateChange listener. With a session (SIGNED_IN from the Auth
\* view, TOKEN_REFRESHED while signed in): setSession(session). With
\* _event === 'SIGNED_OUT': setSession(null), then setStep('hero') and
\* resetState(), rendered together or one after the other.
AuStateChange ==
    /\ au.pc = "idle" /\ ~au.checkingSession
    /\ \/ /\ ~au.session => au.view = "auth"
          /\ AuRender([au EXCEPT !.session = TRUE])
       \/ /\ au.session
          /\ \E batched \in BOOLEAN :
                IF batched
                THEN AuRender([au EXCEPT !.session = FALSE, !.step = "hero"])
                ELSE AuRender([au EXCEPT !.session = FALSE, !.pc = "signedOut"])

\* the rest of the SIGNED_OUT listener
AuSignedOutRest ==
    /\ au.pc = "signedOut"
    /\ AuRender([au EXCEPT !.step = "hero", !.pc = "idle"])

\* handleStart, handleLogoClick, navigateToAuth and My Gallery, once the
\* effects of the last render have run
AuHeader ==
    /\ au.pc = "idle" /\ ~(au.session /\ au.step = "auth") /\ ~au.checkingSession
    /\ \/ /\ au.view = "hero"
          /\ IF au.session
             THEN AuRender([au EXCEPT !.step = "character"])
             ELSE AuRender([au EXCEPT !.step = "auth", !.returnTo = "character"])
       \/ AuRender([au EXCEPT !.step = "hero"])
       \/ /\ ~au.session
          /\ AuRender([au EXCEPT !.step = "auth", !.returnTo = "null"])
       \/ /\ au.session
          /\ AuRender([au EXCEPT !.step = "gallery"])

\* the Back and Next buttons of the views, Generate, and the gallery's buttons
AuStep ==
    /\ au.pc = "idle" /\ ~(au.session /\ au.step = "auth")
    /\ \E to \in CASE au.view = "character" -> {"hero", "story"}
                   [] au.view = "story" -> {"character", "style"}
                   [] au.view = "style" -> {"story", "result"}
                   [] au.view = "result" -> {"style", "hero"}
                   [] au.view = "gallery" -> {"hero", "character"}
                   [] OTHER -> {} :
          AuRender([au EXCEPT !.step = to])

AuthSpec ==
    Init /\ [][AuGetSession \/ AuRedirect \/ AuStateChange \/ AuSignedOutRest
                  \/ AuHeader \/ AuStep]_vars

\* the redirect effect runs once the render that needs it has happened
LiveSpec == Spec /\ WF_vars(Async(PostLoginRedirect))

\* ---- the claims -------------------------------------------------------------
\* the generateImageFromPrompt calls that have not returned
RunCalls == {r \in RunSlots : runs[r].pc = "calling"}
RegenCalls == {g \in RegenSlots : regens[g].pc = "calling"}
RunCallId(r) == heap[runs[r].updatedScenes[runs[r].i + 1]].id

\* C1: at most one generateImage call is in flight at any time, whatever the
\* interleaving of handleGenerate and handleRegenerateSingle.
C1_OneCallInFlight == Cardinality(RunCalls) + Cardinality(RegenCalls) <= 1

\* C2: for every scene, at most one generation request for that scene is in
\* flight at any time.
C2_OneRequestPerScene ==
    /\ \A r1, r2 \in RunCalls : r1 # r2 => RunCallId(r1) # RunCallId(r2)
    /\ \A g1, g2 \in RegenCalls : g1 # g2 => regens[g1].id # regens[g2].id
    /\ \A r \in RunCalls, g \in RegenCalls : RunCallId(r) # regens[g].id

\* the calls of run r so far are those for indexes 0, 1, ... in that order, and
\* only the last one can be pending
LogInOrder(r) ==
    LET L == runs[r].log
    IN /\ \A k \in 1..Len(L) : L[k].idx = k - 1
       /\ \A k \in 1..(Len(L) - 1) : L[k].res # "pending"
       /\ runs[r].pc = "calling" =>
             /\ Len(L) = runs[r].i + 1
             /\ L[Len(L)].res = "pending"

\* run r issues its next call in this step: the call before it has returned or
\* failed and its outcome is in the scene object and in the scenes state
IssuedAfterRecorded(r) ==
    (runs[r].pc = "calling" /\ Len(runs'[r].log) > Len(runs[r].log)) =>
        LET j == Len(runs[r].log)
            res == runs'[r].log[j].res
            sc == heap'[runs'[r].updatedScenes[j]]
        IN /\ res \in {"ok", "fail"}
           /\ ~sc.isGenerating
           /\ res = "ok" => sc.imageUrl = Image
           /\ res = "fail" => sc.imageUrl = Undefined /\ sc.error = GenFailed
           /\ scenes' = runs'[r].updatedScenes
           /\ runs'[r].log[j + 1].idx = j

\* C3: within one run of handleGenerate the calls are issued in index order
\* 0, 1, ..., n-1, and the call for scene i+1 is issued only after the call for
\* scene i has returned or failed and its image or error has been recorded.
C3_SequentialInOrder ==
    /\ [](\A r \in RunSlots : LogInOrder(r))
    /\ [][\A r \in RunSlots : IssuedAfterRecorded(r)]_vars

\* a run is at its second call, the first one recorded
C3_Witness ==
    \E r \in RunSlots :
        /\ runs[r].pc = "calling" /\ runs[r].i = 1
        /\ runs[r].log[1].res = "fail"
        /\ heap[runs[r].updatedScenes[1]].error = GenFailed

\* the state scenes[k] shows what call k of the log returned
Shows(k, res) ==
    LET sc == heap[scenes[k]]
    IN /\ ~sc.isGenerating
       /\ res = "ok" => sc.imageUrl # Undefined /\ sc.error = NoError
       /\ res = "fail" => sc.imageUrl = Undefined /\ sc.error # NoError

\* C4: after an uninterrupted run of handleGenerate over n scenes exactly one
\* call was made per scene, scene i has an image and no error if its call
\* succeeded and an error and no image if it failed, whatever the other calls did.
C4_BatchOutcome ==
    (lastAct.kind = "runEnd" /\ lastAct.clean) =>
        /\ Len(lastAct.log) = lastAct.n
        /\ Len(scenes) = lastAct.n
        /\ \A k \in 1..lastAct.n :
              /\ lastAct.log[k].idx = k - 1
              /\ lastAct.log[k].res \in {"ok", "fail"}
              /\ Shows(k, lastAct.log[k].res)

\* an uninterrupted run over two scenes whose first call failed and whose
\* second call succeeded
C4_Witness ==
    /\ lastAct.kind = "runEnd" /\ lastAct.clean /\ lastAct.n = 2
    /\ lastAct.log[1].res = "fail" /\ lastAct.log[2].res = "ok"

\* a step of handleRegenerateSingle on index (its start, or the return of its
\* call) leaves the list as long as it was and every other scene as it was
RegenFrame(index) ==
    /\ Len(scenes') = Len(scenes)
    /\ \A j \in 1..Len(scenes) :
          j # index + 1 => heap'[scenes'[j]] = heap[scenes[j]]

\* C5: handleRegenerateSingle(i), once or twice in sequence, changes only scene
\* i: id, description, imageUrl, isGenerating and error of every other scene
\* are the same before and after, whether the call succeeds or fails.
C5_RegenTouchesOneScene ==
    [][\A g \in RegenSlots :
          /\ (regens[g].pc = "idle" /\ regens'[g].pc # "idle")
                => RegenFrame(regens'[g].index)
          /\ (regens[g].pc # "idle" /\ regens'[g].pc # regens[g].pc /\ ~crashed')
                => RegenFrame(regens[g].index)]_vars

\* a regeneration of the first scene failed; the second scene keeps its image
C5_Witness ==
    /\ Len(scenes) = 2 /\ ActiveRegens = {} /\ ActiveRuns = {}
    /\ heap[scenes[1]].error = RegenFailed
    /\ heap[scenes[2]].imageUrl = Image /\ heap[scenes[2]].error = NoError

\* C6: immediately after any reset action the character description and
\* reference image, rawStory, the scene list, selectedStyle and errorMsg are
\* empty and isGenerating and isAnalyzing are false, whatever the step and
\* whether or not an analysis or generation is in progress.
C6_ResetClears ==
    lastAct.kind = "reset" =>
        /\ character.description = "" /\ ~character.imageBase64
        /\ rawStory = "" /\ scenes = <<>> /\ selectedStyle = "" /\ errorMsg = ""
        /\ ~isGenerating /\ ~isAnalyzing

\* a reset while a generation call of a run is pending
C6_Witness ==
    /\ lastAct.kind = "reset"
    /\ RunCalls # {}

\* C7: after a reset the scene list stays empty until the user adds a scene or
\* runs auto-split again. The step that follows a reset is taken in the hero,
\* auth or character view, where the user can do neither: if it fills the
\* scene list, a result started before the reset was written after it.
C7_NoWriteAfterReset ==
    [][lastAct.kind = "reset" => scenes' = <<>>]_vars

\* every scene on screen is cleared and marked as generating
AllCleared(h, sc) ==
    \A k \in 1..Len(sc) :
        /\ h[sc[k]].imageUrl = Undefined
        /\ h[sc[k]].error = NoError
        /\ h[sc[k]].isGenerating

\* C8: every invocation of handleGenerate restarts from scratch: when it issues
\* its first generation call every scene is cleared with isGenerating true and
\* step is 'result', and while it runs no image or error is shown for a scene
\* it has not yet completed.
C8_RestartsFromScratch ==
    /\ [][\A r \in RunSlots :
             (runs[r].pc # "calling" /\ runs'[r].pc = "calling" /\ runs'[r].i = 0)
                => (step' = "result" /\ AllCleared(heap', scenes'))]_vars
    /\ [](\A r \in RunCalls :
             \A k \in (runs[r].i + 1)..Len(scenes) :
                 /\ heap[scenes[k]].imageUrl = Undefined
                 /\ heap[scenes[k]].error = NoError)

\* C9: Start Creating without a session leads to 'auth' with returnTo =
\* 'character'; when a session exists while step = 'auth' the step becomes
\* 'character' and returnTo null, or 'hero' when returnTo was null; and a
\* session with step = 'auth' always leads to a step other than 'auth'.
C9_AuthDetour ==
    /\ [][(~session /\ HandleStart) =>
             (step' = "auth" /\ returnTo' = "character")]_vars
    /\ [][(session /\ session' /\ step = "auth" /\ step' # "auth" /\ ~crashed') =>
             /\ returnTo = "character" => step' = "character" /\ returnTo' = "null"
             /\ returnTo = "null" => step' = "hero"]_vars
    /\ ((session /\ step = "auth") ~> (step # "auth"))

\* the user signed in on the detour that Start Creating began
C9_Witness == session /\ step = "auth" /\ returnTo = "character"

\* the number of sentence terminators in a text
CountTerminators(s) == Cardinality({k \in 1..Len(s) : s[k] \in Terminators})

\* C10 as claimed: for a text with k < 6 terminators the fallback split returns
\* at most k scenes, each longer than 5 characters after trimming.
C10_AtMostKScenes ==
    (fallbackRan /\ CountTerminators(Flatten(storyText)) < 6) =>
        /\ Len(fallbackOut) <= CountTerminators(Flatten(storyText))
        /\ \A k \in 1..Len(fallbackOut) : Len(TrimSeq(fallbackOut[k])) > 5

\* C10 as amended: at most k + 1 scenes, each longer than 5 characters after
\* trimming.
C10_AtMostKPlusOneScenes ==
    (fallbackRan /\ CountTerminators(Flatten(storyText)) < 6) =>
        /\ Len(fallbackOut) <= CountTerminators(Flatten(storyText)) + 1
        /\ \A k \in 1..Len(fallbackOut) : Len(TrimSeq(fallbackOut[k])) > 5

\* two terminators, three scenes
C10_Witness ==
    /\ fallbackRan
    /\ CountTerminators(Flatten(storyText)) = 2
    /\ Len(fallbackOut) = 3

\* the least position from which d occurs in s at or after from, 0 if none
OccursFrom(d, s, from) ==
    LET P == {p \in from..(Len(s) - Len(d) + 1) : SubSeq(s, p, p + Len(d) - 1) = d}
    IN IF P = {} THEN 0 ELSE CHOOSE p \in P : \A q \in P : p <= q

\* the descriptions out[k..] occur in s one after the other from position from
RECURSIVE InOrder(_, _, _, _)
InOrder(out, s, k, from) ==
    IF k > Len(out) THEN TRUE
    ELSE LET p == OccursFrom(out[k].description, s, from)
         IN p # 0 /\ InOrder(out, s, k + 1, p + Len(out[k].description))

\* generateContent failed, or its text is no JSON
IsErrorOutcome(o) ==
    \/ o.kind \in {"config", "transport", "vendor"}
    \/ o.kind = "text" /\ ~JsonParse(ResponseText(o.text)).ok

\* C11: on any transport, parse or vendor error breakdownStory does not throw;
\* it returns the naive delimiter split of its input, at most 6 scenes in the
\* order of the text, and handleAnalyzeStory stores those scenes without
\* setting errorMsg.
C11_ErrorFallsBack ==
    (bd.pc # "idle" /\ IsErrorOutcome(bd.outcome)) =>
        /\ ~bd.threw /\ bd.path = "fallback"
        /\ Len(bd.out) <= 6
        /\ \A k \in 1..Len(bd.out) :
              /\ bd.out[k].defined /\ bd.out[k].description # <<>>
              /\ \A j \in 1..Len(bd.out[k].description) :
                    bd.out[k].description[j] \notin Terminators
        /\ InOrder(bd.out, Flatten(storyText), 1, 1)
        /\ bd.pc = "stored" => bd.stored = bd.out /\ bd.errorMsg = ""

\* a transport error on a narrative of seven long sentences: six scenes stored
C11_Witness ==
    /\ bd.pc = "stored" /\ bd.outcome.kind = "transport"
    /\ Len(storyText) = 7 /\ Len(bd.stored) = 6
    /\ bd.stored[1].description # bd.stored[2].description

\* the response describes only {description} items
DescriptionItems(o) ==
    /\ o.kind = "text" /\ o.wrap \in {"bare", "object"}
    /\ \A k \in 1..Len(o.items) : o.items[k] \in {"A", "B"}

\* one scene per item, in response order
OneScenePerItem ==
    /\ bd.path = "parsed" /\ Len(bd.out) = Len(bd.outcome.items)
    /\ \A k \in 1..Len(bd.out) :
          bd.out[k] = [description |-> <<bd.outcome.items[k]>>, defined |-> TRUE]

\* C12 as claimed: a response that is a bare JSON array, an object containing
\* the array under a known key, or either of these wrapped in code fences,
\* gives one scene per {description} item, in response order, not the fallback.
C12_AcceptsAllShapes ==
    (bd.pc # "idle" /\ DescriptionItems(bd.outcome)) => OneScenePerItem

\* C12 as amended: a bare JSON array without code fences gives one scene per
\* {description} item, in response order; an object containing the array and
\* a response wrapped in code fences give the fallback split.
C12_AcceptsBareArray ==
    (bd.pc # "idle" /\ DescriptionItems(bd.outcome)) =>
        IF bd.outcome.wrap = "bare" /\ ~bd.outcome.fenced
        THEN OneScenePerItem
        ELSE bd.path = "fallback" /\ bd.out = FallbackScenes(Flatten(storyText))

\* a bare array of two different items was parsed
C12_Witness ==
    /\ bd.pc # "idle" /\ bd.path = "parsed"
    /\ bd.outcome.items = <<"B", "A">>
    /\ Len(bd.out) = 2

\* C13: analyzeCharacterFromImage never throws to its caller: for a missing API
\* key, an input that is not a base64 data URI, a transport failure or an empty
\* response it returns the empty string.
C13_AnalyzeNeverThrows ==
    (svc.pc = "done" /\ svc.fn = "analyze") =>
        /\ svc.result.kind = "returned"
        /\ (\/ ~svc.apiKey
            \/ ~MatchesDataUri(svc.image)
            \/ svc.vendor \in {"reject", "empty"}) => svc.result.value = ""

\* a transport failure on a well-formed data URI
C13_Witness ==
    /\ svc.pc = "done" /\ svc.fn = "analyze" /\ svc.apiKey
    /\ svc.image = <<"data:", "x", ";base64,", "x">>
    /\ svc.vendor = "reject" /\ svc.checks = 1
    /\ svc.result = Returned("")

\* the call of generateImageFromPrompt did not produce an image
GenerateFailed ==
    /\ svc.pc = "done" /\ svc.fn = "generate"
    /\ ~svc.apiKey \/ svc.vendor # "image part"

\* C14 as claimed: on every failure path generateImageFromPrompt returns the
\* fixed 1x1 placeholder image to its caller rather than propagating an error.
C14_ReturnsPlaceholder ==
    GenerateFailed => svc.result.kind = "returned"

\* C14 as amended: on every failure path generateImageFromPrompt raises the
\* fixed error "Failed to generate image." to its caller; it returns no
\* placeholder image.
C14_RaisesFixedError ==
    GenerateFailed => svc.result = Threw("Failed to generate image.")

\* the response came back without an image part
C14_Witness ==
    /\ GenerateFailed /\ svc.apiKey /\ svc.vendor = "text part" /\ svc.checks = 1
    /\ svc.result.kind = "threw"

\* RUNNING at n checks
Running(n) == [k \in 1..n |-> "RUNNING"]

\* the first check that reports FAILED, 0 if none
FirstFailed(st) ==
    IF \E k \in 1..Len(st) : st[k] = "FAILED"
    THEN CHOOSE k \in 1..Len(st) :
            st[k] = "FAILED" /\ \A j \in 1..(k - 1) : st[j] # "FAILED"
    ELSE 0

\* C15: the asynchronous generateImage polls the task status at most 30 times:
\* with RUNNING x29 then SUCCEEDED it returns the result on the 30th check, with
\* RUNNING x30 it raises a timeout, and on FAILED at any check it raises at once
\* and polls no further.
C15_PollsUpTo30 ==
    (svc.fn = "poll") =>
        /\ svc.checks <= 30
        /\ svc.pc = "done" =>
            /\ svc.statuses = Running(29) \o <<"SUCCEEDED">> =>
                  svc.result = Returned(Image) /\ svc.checks = 30
            /\ svc.statuses = Running(30) =>
                  svc.result = Threw("timeout") /\ svc.checks = 30
            /\ (FirstFailed(svc.statuses) \in 1..30) =>
                  /\ svc.result.kind = "threw"
                  /\ svc.checks = FirstFailed(svc.statuses)

\* the task succeeded at the 30th check
C15_Witness ==
    /\ svc.pc = "done" /\ svc.fn = "poll"
    /\ svc.statuses = Running(29) \o <<"SUCCEEDED">>
    /\ svc.checks = 30 /\ svc.result = Returned(Image)

\* C16: the middleware returns the unmodified page whenever the last path
\* segment is empty or contains '.', the row lookup responds non-ok, the lookup
\* returns no row, or any step throws; it returns rewritten HTML only when a row
\* was found.
C16_FallsThrough ==
    (mw.pc = "done") =>
        /\ (\/ mw.id = <<>> \/ IncludesDot(mw.id)
            \/ mw.db \in {"throws", "not ok", "bad json", "null", "object", "empty"}
            \/ mw.index = "throws" \/ mw.caption.kind = "number")
              => mw.out.kind = "passthrough"
        /\ mw.out.kind = "rewritten" => mw.db = "row"

\* a row was found and the page was rewritten
C16_Witness ==
    /\ mw.pc = "done" /\ mw.db = "row" /\ mw.out.kind = "rewritten"
    /\ mw.html = <<"x", "</head>">>

\* the og:image meta tags of a page: the positions of their openings
OgImageTags(h) == {i \in 1..Len(h) : h[i] = OgImageOpen}

\* C17: for every index.html and every stored row the returned HTML contains
\* exactly one og:image meta tag, and its content is the stored image_url.
C17_OneOgImage ==
    (mw.pc = "done" /\ mw.out.kind = "rewritten") =>
        /\ Cardinality(OgImageTags(mw.out.html)) = 1
        /\ \A i \in OgImageTags(mw.out.html) :
              i < Len(mw.out.html) /\ mw.out.html[i + 1] = mw.imageUrl

\* s is the escaped form of the first characters of c
EscapedPrefix(s, c) == \E n \in 0..Len(c) : s = EscapeQuotes(SubSeq(c, 1, n))

\* C18: every double quote of the stored caption appears as &quot; in the
\* inserted tags, and nothing of the caption, truncation to 50 characters
\* included, is a double quote that would end a content="..." value.
C18_QuotesEscaped ==
    (mw.pc = "done" /\ mw.out.kind = "rewritten" /\ mw.caption.kind = "string"
        /\ mw.caption.chars # <<>>) =>
        /\ \A k \in 1..Len(mw.out.safeTitle) : mw.out.safeTitle[k] # "\""
        /\ EscapedPrefix(mw.out.safeTitle, mw.caption.chars)

\* the tokens of part occur in whole, next to each other
Contains(whole, part) ==
    \E i \in 0..(Len(whole) - Len(part)) : SubSeq(whole, i + 1, i + Len(part)) = part

\* C19: the composed prompt contains the scene description verbatim under the
\* panel number index + 1, and the frameless composition rule exactly when the
\* selected style is one of the frameless styles, the framed rule otherwise.
C19_PromptContents ==
    (pr.pc = "done") =>
        /\ Contains(pr.prompt, <<"**SCENE SCRIPT (Panel", ToString(pr.index + 1), ")**:">>
                                   \o pr.scene \o <<".", "**COMPOSITION GUIDELINES**:">>)
        /\ Contains(pr.prompt,
                    <<"Draw a single isolated spot illustration on a pure white background.">>)
              <=> pr.style \in {"doodle", "lineart", "corporate", "loose"}
        /\ Contains(pr.prompt, <<"Draw exactly ONE comic panel with a clear frame.">>)
              <=> pr.style \notin {"doodle", "lineart", "corporate", "loose"}

\* the second panel in the last of the frameless styles
C19_Witness ==
    /\ pr.pc = "done" /\ pr.style = "loose" /\ pr.index = 1 /\ pr.scene = <<"w", " ">>
    /\ Contains(pr.prompt, <<"**SCENE SCRIPT (Panel", "2", ")**:", "w", " ", ".">>)

\* the character-context templates, by the heading only they have
Variants ==
    [hybrid |-> "**USER INSTRUCTIONS**:", reference |-> "**MANDATORY TRAITS**:",
     profile |-> "**MAIN CHARACTER PROFILE**:",
     generic |-> "**MAIN CHARACTER**: A generic user persona"]

VariantsIn(prompt) == {v \in DOMAIN Variants : Contains(prompt, <<Variants[v]>>)}

NonBlank(d) == \E k \in 1..Len(d) : d[k] \notin {" ", "\n"}

\* C20: the character-context template is one of exactly four, chosen by
\* whether a reference image is present and whether the description is
\* non-blank: hybrid, reference, profile, generic.
C20_FourVariants ==
    (pr.pc = "done") =>
        VariantsIn(pr.prompt) =
            {IF pr.refImage /\ NonBlank(pr.description) THEN "hybrid"
             ELSE IF pr.refImage THEN "reference"
             ELSE IF NonBlank(pr.description) THEN "profile"
             ELSE "generic"}

\* a description of blanks only, with a reference image
C20_Witness ==
    /\ pr.pc = "done" /\ pr.refImage /\ pr.description = <<" ", "\n">>
    /\ VariantsIn(pr.prompt) = {"reference"}

\* ---- UserMenu ---------------------------------------------------------------
\* One mounted UserMenu. Each event is handled and rendered before the next
\* one, so the isOpen a handler closes over is the current one. gallery and
\* logout count the calls of onOpenGallery and onLogout.

\* the toggle button: onClick={() => setIsOpen(!isOpen)}
UmToggle ==
    /\ um' = [um EXCEPT !.isOpen = ~um.isOpen, !.last = "toggle"]
    /\ UNCHANGED <<appVars, splitVars, bd, svc, mw, pr, au, sl>>

\* (mutant) the document listener closes the menu wherever the press lands
UmMouseDown_anywhere ==
    /\ \E inside \in BOOLEAN :
          um' = [um EXCEPT !.isOpen = FALSE,
                           !.last = IF inside THEN "mousedownInside"
                                    ELSE "mousedownOutside"]
    /\ UNCHANGED <<appVars, splitVars, bd, svc, mw, pr, au, sl>>

\* handleClickOutside, the document's mousedown listener: inside says whether
\* menuRef.current, which holds the toggle button and the dropdown, contains
\* the target
UmMouseDown ==
    /\ \E inside \in BOOLEAN :
          um' = [um EXCEPT !.isOpen = IF ~inside THEN FALSE ELSE um.isOpen,
                           !.last = IF inside THEN "mousedownInside"
                                    ELSE "mousedownOutside"]
    /\ UNCHANGED <<appVars, splitVars, bd, svc, mw, pr, au, sl>>

\* the items of the dropdown, rendered only while isOpen: My Gallery,
\* Feedback, Sign Out
UmActivate ==
    /\ um.isOpen
    /\ \/ /\ um.gallery < MaxActivations
          /\ um' = [um EXCEPT !.isOpen = FALSE, !.gallery = um.gallery + 1,
                              !.last = "gallery"]
       \/ um' = [um EXCEPT !.isOpen = FALSE, !.last = "feedback"]
       \/ /\ um.logout < MaxActivations
          /\ um' = [um EXCEPT !.isOpen = FALSE, !.logout = um.logout + 1,
                              !.last = "logout"]
    /\ UNCHANGED <<appVars, splitVars, bd, svc, mw, pr, au, sl>>

UserMenuSpec == Init /\ [][UmToggle \/ UmMouseDown \/ UmActivate]_vars

\* ---- scene ids --------------------------------------------------------------
\* The ids of the scene list. Date.now() is the clock in milliseconds: it never
\* goes back and two reads within one millisecond return the same value. The
\* clock starts at 10 so that its decimal form keeps one width, as the 13
\* digits of a present-day timestamp do.

\* breakdownStory's ids, Date.now().toString() + index for each item of the
\* parsed response or of the fallback split, stored by handleAnalyzeStory
IdAnalyze ==
    \E n \in 0..MaxScenes, cut \in 0..MaxScenes :
    \E t0 \in sl.ticks..MaxTicks : \E t1 \in t0..MaxTicks :
        /\ sl' = [sl EXCEPT !.ticks = t1, !.op = "analyze", !.clicked = 0,
                            !.removed = 0, !.hit = 0,
                            !.ids = [i \in 1..n |->
                                       ToString(10 + (IF i <= cut THEN t0 ELSE t1))
                                          \o ToString(i - 1)]]
        /\ UNCHANGED <<appVars, splitVars, bd, svc, mw, pr, au, um>>

\* Add Scene, either button: setScenes([...scenes, { id: Date.now().toString(), ... }])
IdAdd ==
    /\ Len(sl.ids) <= MaxScenes
    /\ \E t \in sl.ticks..MaxTicks :
          sl' = [sl EXCEPT !.ticks = t, !.op = "add", !.clicked = 0, !.removed = 0,
                           !.hit = 0, !.ids = Append(sl.ids, ToString(10 + t))]
    /\ UNCHANGED <<appVars, splitVars, bd, svc, mw, pr, au, um>>

\* the handlers that take the scene on screen at position clicked by its id:
\* delete, scenes.filter(s => s.id !== scene.id); edit and regenerate,
\* scenes.findIndex(s => s.id === id)
IdById ==
    /\ \E k \in 1..Len(sl.ids) :
          LET id == sl.ids[k]
              kept == SelectSeq(sl.ids, LAMBDA s : s # id)
              findIndex == CHOOSE j \in 1..Len(sl.ids) :
                              /\ sl.ids[j] = id
                              /\ \A m \in 1..(j - 1) : sl.ids[m] # id
          IN \/ sl' = [sl EXCEPT !.op = "delete", !.clicked = k, !.ids = kept,
                                 !.removed = Len(sl.ids) - Len(kept), !.hit = 0]
             \/ \E op \in {"edit", "regenerate"} :
                   sl' = [sl EXCEPT !.op = op, !.clicked = k, !.hit = findIndex,
                                    !.removed = 0]
    /\ UNCHANGED <<appVars, splitVars, bd, svc, mw, pr, au, um>>

IdSpec == Init /\ [][IdAnalyze \/ IdAdd \/ IdById]_vars

\* ---- claims C21 to C30 ---------------------------------------------------------
\* the descriptions of the scene list, in order
Descs(h, sc) == [k \in 1..Len(sc) |-> h[sc[k]].description]

RemoveAt(s, k) == SubSeq(s, 1, k - 1) \o SubSeq(s, k + 1, Len(s))

\* a step of a handleGenerate run or of a handleRegenerateSingle call
RunStep == User(HandleGenerate) \/ Async(RunAnalysisReturn) \/ Async(RunReturn)
RegenStep ==
    User(HandleRegenerateSingle) \/ Async(RegenAnalysisReturn) \/ Async(RegenReturn)

\* editing, regenerating and going back keep the scenes and their order
C21_EditRegenBackKeep ==
    [][/\ User(EditDescription) =>
            /\ Len(scenes') = Len(scenes)
            /\ \E k \in 1..Len(scenes) : \A j \in 1..Len(scenes) \ {k} :
                  Descs(heap', scenes')[j] = Descs(heap, scenes)[j]
       /\ (RegenStep /\ ~crashed') \/ User(ResultBack) =>
            Descs(heap', scenes') = Descs(heap, scenes)]_vars

\* deleting removes one scene, adding appends one
C21_DeleteAddKeep ==
    [][/\ User(DeleteScene) =>
            \E k \in 1..Len(scenes) :
               Descs(heap', scenes') = RemoveAt(Descs(heap, scenes), k)
       /\ User(AddScene) =>
            Descs(heap', scenes') = Append(Descs(heap, scenes), "")]_vars

\* C21: No operation reorders the scene list: editing a description, the steps
\* of a batch run, the steps of a single regeneration and Back from the result
\* leave the number and the order of the scenes as they were, deleting removes
\* exactly one scene and keeps the others in order, adding appends at the end.
C21_OrderKept ==
    [][/\ User(EditDescription) =>
            /\ Len(scenes') = Len(scenes)
            /\ \E k \in 1..Len(scenes) : \A j \in 1..Len(scenes) \ {k} :
                  Descs(heap', scenes')[j] = Descs(heap, scenes)[j]
       /\ RunStep \/ RegenStep \/ User(ResultBack) =>
            Descs(heap', scenes') = Descs(heap, scenes)
       /\ User(DeleteScene) =>
            \E k \in 1..Len(scenes) :
               Descs(heap', scenes') = RemoveAt(Descs(heap, scenes), k)
       /\ User(AddScene) =>
            Descs(heap', scenes') = Append(Descs(heap, scenes), "")]_vars

\* C22: Within one run of handleGenerate every generation call uses the same
\* character context and the same reference image, those of the character the
\* run was invoked with, whatever the character state has become; the analysis
\* of the reference image starts only with the run, only when the run has a
\* reference image, and no call is issued before it has returned.
C22_FixedContext ==
    [][\A r \in RunSlots :
          LET run == runs'[r]
          IN /\ \A k \in 1..Len(run.log) :
                   /\ run.log[k].ref = run.character.imageBase64
                   /\ run.log[k].ctx = ContextVariant(run.character)
                   /\ run.log[k].ref = run.log[1].ref
                   /\ run.log[k].ctx = run.log[1].ctx
             /\ (runs[r].pc = "idle" /\ run.pc # "idle") =>
                   /\ run.character = character
                   /\ (run.pc = "analysis") = character.imageBase64
             /\ (runs[r].pc # "idle" /\ run.pc # "idle") =>
                   run.character = runs[r].character
             /\ (run.pc = "analysis") =>
                   /\ runs[r].pc \in {"idle", "analysis"}
                   /\ run.character.imageBase64
                   /\ run.log = <<>>]_vars

\* the second call of a run with a reference image is pending and the character
\* is no longer the one the run started with
C22_ChangedMidRun ==
    \E r \in RunSlots :
       /\ runs[r].pc = "calling" /\ Len(runs[r].log) = 2
       /\ runs[r].log[1].ref
       /\ ContextVariant(character) # runs[r].log[1].ctx
       /\ runs[r].log[2].ctx = runs[r].log[1].ctx

\* C23: The wizard is linear: step becomes 'style' only from 'story' by Select
\* Style or from 'result' by Back, and becomes 'result' only from 'style' by
\* handleGenerate, which is invoked on the style and result views only; so no
\* step leads from hero, auth, character or gallery to 'style' or 'result'.
C23_Linear ==
    [][/\ (step' = "style" /\ step # "style") =>
             \/ step = "story" /\ User(StoryNext)
             \/ step = "result" /\ User(ResultBack)
       /\ (step' = "result" /\ step # "result") =>
             step = "style" /\ User(HandleGenerate)
       /\ User(HandleGenerate) =>
             step \in {"style", "result"} /\ step' = "result"]_vars

\* Back from the result while the run goes on: the wizard is on 'style' again
C23_BackOnStyle == step = "style" /\ session /\ ActiveRuns # {}

\* the scene object at position index of the list (index counted from 0)
SceneAt(h, sc, index) == h[sc[index + 1]]

\* a regeneration of slot g completes in this step, without a crash
RegenCompletes(g) == regens[g].pc = "calling" /\ regens'[g].pc = "idle" /\ ~crashed'

\* C24: A scene whose generation failed is recovered by a manual regenerate:
\* a scene that shows an error passes the guard of handleRegenerateSingle, and
\* when the regeneration completes the scene at its index has isGenerating
\* false and either the new image and no error, or the error of the failed
\* regeneration and the imageUrl it had when the regeneration was requested.
C24_Recovered ==
    [][/\ \A k \in 1..Len(scenes) :
             heap[scenes[k]].error # NoError => RegenAccepted(heap, scenes, k - 1)
       /\ \A g \in RegenSlots :
             RegenCompletes(g) =>
                LET new == SceneAt(heap', scenes', regens[g].index)
                IN /\ ~new.isGenerating
                   /\ \/ new.imageUrl = Image /\ new.error = NoError
                      \/ new.error = RegenFailed
                         /\ new.imageUrl = regens[g].before]_vars

\* the same, for a regeneration that no other handler's step fell into: from
\* the request to the completion the scene is marked and nothing else changed
C24_RecoveredAlone ==
    [][\A g \in RegenSlots :
          (RegenCompletes(g) /\ ActiveRuns = {}
             /\ LET old == SceneAt(heap, scenes, regens[g].index)
                IN /\ old.id = regens[g].id /\ old.isGenerating
                   /\ old.error = NoError /\ old.imageUrl = regens[g].before) =>
             LET new == SceneAt(heap', scenes', regens[g].index)
             IN /\ ~new.isGenerating
                /\ \/ new.imageUrl = Image /\ new.error = NoError
                   \/ new.error = RegenFailed
                      /\ new.imageUrl = regens[g].before]_vars

\* every return of a provider call to a run takes the loop one iteration
\* further or ends the run, and a run ends after one iteration per scene, with
\* the global flag off
C25_RunEnds ==
    [][\A r \in RunSlots :
          /\ (runs[r].pc = "calling" /\ runs'[r].log # runs[r].log /\ ~crashed') =>
                \/ runs'[r].pc = "idle" /\ runs[r].i + 1 = Len(runs[r].updatedScenes)
                \/ runs'[r].pc = "calling" /\ runs'[r].i = runs[r].i + 1
                   /\ runs'[r].i < Len(runs'[r].updatedScenes)
          /\ (runs[r].pc # "idle" /\ runs'[r].pc = "idle" /\ ~crashed') =>
                /\ lastAct'.kind = "runEnd"
                /\ Len(lastAct'.log) = Len(runs[r].updatedScenes)
                /\ \A k \in 1..Len(lastAct'.log) : lastAct'.log[k].idx = k - 1
                /\ ~isGenerating']_vars

\* C25: A handleGenerate run ends after exactly one loop iteration per scene,
\* and then the global isGenerating flag is false and none of the scenes of the
\* run has isGenerating true; a handleRegenerateSingle call ends, without an
\* exception, with the scene at its index having isGenerating false.
C25_EndsUnmarked ==
    [][/\ \A r \in RunSlots :
             (runs[r].pc # "idle" /\ runs'[r].pc = "idle" /\ ~crashed') =>
                /\ lastAct'.kind = "runEnd"
                /\ Len(lastAct'.log) = Len(runs[r].updatedScenes)
                /\ \A k \in 1..Len(lastAct'.log) : lastAct'.log[k].idx = k - 1
                /\ ~isGenerating'
                /\ Len(runs[r].updatedScenes) > 0 =>
                      \A k \in 1..Len(scenes') : ~heap'[scenes'[k]].isGenerating
       /\ \A g \in RegenSlots :
             (regens[g].pc = "calling" /\ regens'[g].pc = "idle") =>
                /\ ~crashed'
                /\ ~SceneAt(heap', scenes', regens[g].index).isGenerating]_vars

\* the content of a scene object, apart from its id
Content(s) == [s EXCEPT !.id = 0]

\* C26: The completion of a handleRegenerateSingle call raises no exception and
\* changes no scene but the one, by id, it was requested for, whatever happened
\* to the scene list while the call was pending.
C26_OnlyItsScene ==
    [][\A g \in RegenSlots :
          (regens[g].pc = "calling" /\ regens'[g].pc = "idle") =>
             /\ ~crashed'
             /\ Len(scenes') = Len(scenes)
             /\ \A k \in 1..Len(scenes) :
                   heap[scenes[k]].id # regens[g].id =>
                      Content(heap'[scenes'[k]]) = Content(heap[scenes[k]])]_vars

\* C27: Generation never starts on an empty scene list, on a blank description or
\* without a style: while step is 'style' or 'result' the scene list is not
\* empty and no description is blank, and handleGenerate is invoked only with
\* selectedStyle the id of a style.
C27_GenerateInputs ==
    [][/\ step' \in {"style", "result"} =>
             /\ Len(scenes') # 0
             /\ \A k \in 1..Len(scenes') : Trim(heap'[scenes'[k]].description) # ""
       /\ User(HandleGenerate) =>
             /\ selectedStyle \in StyleIds
             /\ Len(scenes) # 0
             /\ \A k \in 1..Len(scenes) : Trim(heap[scenes[k]].description) # ""]_vars

\* handleGenerate is invoked only with a style selected
C27_StyleSelected == [][User(HandleGenerate) => selectedStyle \in StyleIds]_vars

\* C28: The global isGenerating flag is true exactly while a handleGenerate run
\* is in progress.
C28_FlagIffRunning == isGenerating = (ActiveRuns # {})

\* the flag is never set without a run in progress
C28_FlagOnlyWhenRunning == isGenerating => ActiveRuns # {}

\* C29: handleAnalyzeStory is taken only with a non-blank rawStory, and when it
\* completes isAnalyzing is false and the scene list or errorMsg is not empty.
C29_ScenesOrError ==
    [][/\ User(HandleAnalyzeStory) => Trim(rawStory) # ""
       /\ Async(AnalyzeReturn) =>
             /\ ~isAnalyzing'
             /\ Len(scenes') # 0 \/ errorMsg' # ""]_vars

\* the part that holds: the guard, and the flag at completion
C29_GuardAndFlag ==
    [][/\ User(HandleAnalyzeStory) => Trim(rawStory) # ""
       /\ Async(AnalyzeReturn) => ~isAnalyzing']_vars

\* what breakdownStory hands to handleAnalyzeStory is not empty, or an error
\* message is set
C29_StoredOrError == bd.pc = "stored" => (bd.stored # <<>> \/ bd.errorMsg # "")

\* C30: For the same selected style, character data, analysis result, scene
\* description and index, handleRegenerateSingle composes the prompt
\* handleGenerate composes: the same character-context variant, composition
\* rule, negative rule and panel number index + 1, and it passes the same
\* reference image.
C30_SamePrompt ==
    pr.pc = "done" =>
       /\ pr.regenPrompt = pr.prompt
       /\ pr.regenImage = pr.image
       /\ \E k \in 1..Len(pr.regenPrompt) :
             /\ pr.regenPrompt[k] = "**SCENE SCRIPT (Panel"
             /\ pr.regenPrompt[k + 1] = ToString(pr.index + 1)

\* both handlers composed a hybrid, frameless prompt for the third panel
C30_Witness ==
    /\ pr.pc = "done" /\ pr.index = 2 /\ pr.style = "loose"
    /\ pr.refImage /\ TrimSeq(pr.description) # <<>> /\ pr.visualAnalysis # <<>>
    /\ Contains(pr.regenPrompt, <<"**USER INSTRUCTIONS**:">>)
    /\ Contains(pr.prompt, <<"**USER INSTRUCTIONS**:">>)
    /\ pr.regenImage = Image

\* ---- claims C31 to C34 ---------------------------------------------------------
\* C31: Back from the result view sets step to 'style' and leaves every scene
\* with no imageUrl, no error and isGenerating false, with the id and the
\* description it had, and leaves the character, rawStory and selectedStyle as
\* they were.
C31_BackClears ==
    [][User(ResultBack) =>
          /\ step' = "style"
          /\ Len(scenes') = Len(scenes)
          /\ \A k \in 1..Len(scenes) :
                LET new == heap'[scenes'[k]]
                    old == heap[scenes[k]]
                IN /\ new.imageUrl = Undefined /\ new.error = NoError
                   /\ ~new.isGenerating
                   /\ new.id = old.id /\ new.description = old.description
          /\ character' = character /\ rawStory' = rawStory
          /\ selectedStyle' = selectedStyle]_vars

\* Back was pressed while a regeneration was pending: the style view shows two
\* cleared scenes
C31_Witness ==
    /\ step = "style" /\ session /\ ActiveRegens # {} /\ Len(scenes) = 2
    /\ \A k \in 1..Len(scenes) :
          /\ heap[scenes[k]].imageUrl = Undefined /\ heap[scenes[k]].error = NoError
          /\ ~heap[scenes[k]].isGenerating

\* C32: a generator view (character, story, style, result) or the gallery view
\* is on screen only while a session exists: after every render with
\* session = null and step one of character, story, style, result, gallery,
\* the view on screen is the Auth view.
Protected == {"character", "story", "style", "result", "gallery"}

C32_SessionGuard ==
    /\ au.view \in Protected => au.session
    /\ (~au.session /\ au.step \in Protected) => au.view = "auth"

\* the listener's setSession(null) was rendered before its setStep('hero'),
\* on the result view
C32_Witness ==
    /\ au.pc = "signedOut" /\ ~au.session /\ au.step = "result" /\ au.view = "auth"

\* C33: scene ids are pairwise distinct in every scene list reached by
\* auto-split, fallback split, Add Scene and delete, so that a delete removes
\* exactly one scene and an edit or a regeneration by id acts on the scene
\* that was clicked.
C33_DistinctIds ==
    /\ \A i, j \in 1..Len(sl.ids) : i # j => sl.ids[i] # sl.ids[j]
    /\ sl.op = "delete" => sl.removed = 1
    /\ sl.op \in {"edit", "regenerate"} => sl.hit = sl.clicked

\* the ids breakdownStory gives to the scenes of one result are pairwise
\* distinct, whatever the clock does between two of them
C33_SplitIdsDistinct ==
    [][IdAnalyze => \A i, j \in 1..Len(sl.ids') : i # j => sl.ids'[i] # sl.ids'[j]]_vars

\* C34: UserMenu: after My Gallery, Feedback or Sign Out is activated, and
\* after a mousedown outside the menu, the menu is closed; My Gallery calls
\* onOpenGallery once and Sign Out calls onLogout once, and nothing else calls
\* them; a mousedown inside the menu leaves isOpen as it is; the toggle button
\* flips isOpen.
C34_MenuEvents ==
    [][um' # um =>
          /\ um'.last \in {"gallery", "feedback", "logout", "mousedownOutside"} =>
                ~um'.isOpen
          /\ um'.gallery = um.gallery + (IF um'.last = "gallery" THEN 1 ELSE 0)
          /\ um'.logout = um.logout + (IF um'.last = "logout" THEN 1 ELSE 0)
          /\ um'.last = "mousedownInside" => um'.isOpen = um.isOpen
          /\ um'.last = "toggle" => um'.isOpen = ~um.isOpen]_vars

\* Sign Out closed the menu and called onLogout, after My Gallery had been
\* used once
C34_Witness ==
    /\ um.last = "logout" /\ ~um.isOpen /\ um.gallery = 1 /\ um.logout = 1

====
